---- MODULE Spec2Model ----
(***************************************************************************)
(* Model of the transactional order engine of nodejs-pro:                  *)
(* OrdersService.createOrder (src/src/modules/orders/orders.service.ts)    *)
(* running as concurrent calls against one PostgreSQL database             *)
(* (READ COMMITTED, row locks FOR NO KEY UPDATE NOWAIT, UNIQUE index on    *)
(* orders.idempotencyKey).  Every await of createOrder is one step of a    *)
(* call; the in-memory code between two awaits belongs to the step of the  *)
(* await before it.                                                        *)
(***************************************************************************)
EXTENDS Integers, Sequences, FiniteSets, TLC

\* ------------------------------------------------------------------ bounds
\* Number of createOrder calls that arrive in one run.
MaxCalls == 2
\* Number of storage faults (a statement of the query runner throwing for a
\* reason the code does not expect) that may strike in one run.
MaxFaults == 1

\* ---------------------------------------------------------------- fixtures
\* Rows of the users table (test seed: one user).
Users == {1}
\* Rows of the products table.
Products == {1, 2}
\* Seeded stock, scaled down from the test seed (100, 5, 1): product 1 is the
\* scarce one (stock 1, like "Product C"), product 2 has stock for two orders.
InitStock == [p \in Products |-> IF p = 1 THEN 1 ELSE 4]
\* Seeded unit prices, in whole units.
InitPrice == [p \in Products |-> IF p = 1 THEN 3 ELSE 5]

Line(p, q) == [productId |-> p, quantity |-> q]

Dto(userId, key, items) == [userId |-> userId, idempotencyKey |-> key, items |-> items]

\* The CreateOrderDto values the calls are made with (already validated by
\* the DTO decorators: items non-empty, quantity >= 1).  Product 3 and user 2
\* do not exist.
Requests ==
  { Dto(1, 1, << Line(1, 1) >>),               \* the scarce product alone
    Dto(1, 2, << Line(1, 1) >>),               \* ... and under another key
    Dto(1, 1, << Line(1, 1), Line(2, 1) >>),   \* overlapping sets ...
    Dto(1, 2, << Line(2, 1), Line(1, 1) >>),   \* ... in the opposite request order
    Dto(1, 1, << Line(2, 1), Line(2, 2) >>),   \* a repeated product, enough stock
    Dto(1, 1, << Line(2, 3), Line(2, 2) >>),   \* a repeated product, second line short
    Dto(1, 1, << Line(2, 1), Line(3, 1) >>),   \* an unknown product after a known one
    Dto(1, 1, << Line(2, 1), Line(1, 2) >>),   \* short stock after a line that passed
    Dto(2, 1, << Line(1, 1) >>) }              \* an unknown user

\* ------------------------------------------------------------------- state
VARIABLES
  stock,    \* products.stock of the committed rows
  price,    \* products.price of the committed rows
  orders,   \* committed rows of orders, each with its order_items
  calls,    \* the createOrder calls, in arrival order, with their locals
  faults,   \* storage faults that have struck so far
  loaders,  \* the ProductLoader instances, one per GraphQL request in arrival order
  list      \* the call of the orders query that is followed, with its result

vars == << stock, price, orders, calls, faults, loaders, list >>

EmptyMap == [p \in {} |-> 0]

\* ------------------------------------------------------------------ errors
NoError == [name |-> "none", code |-> "none", ids |-> {}, requested |-> 0, available |-> 0]

\* orders.service.ts:89
UserNotFound(id) ==
  [name |-> "NotFoundException", code |-> "user", ids |-> {id}, requested |-> 0, available |-> 0]

\* orders.service.ts:111 and :125
ProductsNotFound(missing) ==
  [name |-> "NotFoundException", code |-> "products", ids |-> missing, requested |-> 0, available |-> 0]

\* orders.service.ts:129-132
InsufficientStock(id, requested, available) ==
  [name |-> "ConflictException", code |-> "stock", ids |-> {id},
   requested |-> requested, available |-> available]

\* The driver's error of FOR NO KEY UPDATE NOWAIT on a locked row.
LockNotAvailable(id) ==
  [name |-> "QueryFailedError", code |-> "lock_not_available", ids |-> {id},
   requested |-> 0, available |-> 0]

\* The driver's error of an INSERT that breaks UQ(idempotencyKey).
UniqueViolation ==
  [name |-> "QueryFailedError", code |-> "unique_violation", ids |-> {},
   requested |-> 0, available |-> 0]

\* Any other failure of a statement (connection lost, statement timeout ...).
StorageFault ==
  [name |-> "QueryFailedError", code |-> "storage_fault", ids |-> {},
   requested |-> 0, available |-> 0]

\* The status the caller of POST /orders sees: HttpExceptions carry their own
\* status, every other error leaves the controller as 500.
HttpStatus(error) ==
  CASE error.name = "BadRequestException" -> 400
    [] error.name = "NotFoundException" -> 404
    [] error.name = "ConflictException" -> 409
    [] OTHER -> 500

\* The failure kind of the taxonomy that a status stands for.
ErrorKind(error) ==
  CASE HttpStatus(error) = 400 -> "Validation"
    [] HttpStatus(error) = 404 -> "NotFound"
    [] HttpStatus(error) = 409 -> "Conflict"
    [] OTHER -> "Internal"

\* ------------------------------------------------------------------- calls
NewCall(dto) ==
  [ dto           |-> dto,
    pc            |-> "begin",
    existingOrder |-> {},
    locks         |-> {},
    products      |-> EmptyMap,
    orderItems    |-> << >>,
    totalPrice    |-> 0,
    txStock       |-> EmptyMap,
    txOrder       |-> {},
    error         |-> NoError,
    outcome       |-> "pending",
    returned      |-> {},
    released      |-> 0 ]

CallIds == DOMAIN calls

\* No call of the orders query has been made.
NoList ==
  [ pc |-> "idle", filter |-> << >>, pagination |-> << >>, limit |-> 0, offset |-> 0,
    nodes |-> << >>, seen |-> {}, totalCount |-> 0,
    pageInfo |-> [hasNextPage |-> FALSE, hasPreviousPage |-> FALSE],
    error |-> "none" ]

Init ==
  /\ stock = InitStock
  /\ price = InitPrice
  /\ orders = {}
  /\ calls = << >>
  /\ faults = 0
  /\ loaders = << >>
  /\ list = NoList

\* A request arrives: the controller calls createOrder(dto), which creates
\* its query runner.
Start(dto) ==
  /\ Len(calls) < MaxCalls
  /\ calls' = Append(calls, NewCall(dto))
  /\ UNCHANGED << stock, price, orders, faults, loaders, list >>

\* The call c with its record replaced by rec.
SetCall(c, rec) == calls' = [calls EXCEPT ![c] = rec]

\* `throw error` inside the try block (orders.service.ts:68-170): control
\* moves to the catch block and the locals of the try block are gone.  The
\* row locks and the uncommitted writes stay until the rollback.
Throw(call, error) ==
  [call EXCEPT !.pc = "rollback", !.error = error, !.existingOrder = {},
               !.products = EmptyMap, !.orderItems = << >>, !.totalPrice = 0]

\* orders.service.ts:63-64: connect() and startTransaction().
Begin(c) ==
  /\ calls[c].pc = "begin"
  /\ SetCall(c, [calls[c] EXCEPT !.pc = "check"])
  /\ UNCHANGED << stock, price, orders, faults, loaders, list >>

\* orders.service.ts:62-64 lie outside the try block: a fault of connect()
\* or startTransaction() leaves createOrder at once, past catch and finally.
BeginFault(c) ==
  /\ calls[c].pc = "begin"
  /\ faults < MaxFaults
  /\ faults' = faults + 1
  /\ SetCall(c, [calls[c] EXCEPT !.pc = "done", !.error = StorageFault,
                                 !.outcome = "thrown"])
  /\ UNCHANGED << stock, price, orders, loaders, list >>

\* Mutant of Check: a found order is returned to an existing user only.
CheckKnownUserOnly(c) ==
  /\ calls[c].pc = "check"
  /\ LET found == {o \in orders : o.idempotencyKey = calls[c].dto.idempotencyKey}
     IN  IF found # {}
         THEN IF calls[c].dto.userId \in Users
              THEN SetCall(c, [calls[c] EXCEPT !.pc = "hit_commit",
                                              !.existingOrder = {CHOOSE o \in found : TRUE}])
              ELSE SetCall(c, Throw(calls[c], UserNotFound(calls[c].dto.userId)))
         ELSE SetCall(c, [calls[c] EXCEPT !.pc = "user"])
  /\ UNCHANGED << stock, price, orders, faults, loaders, list >>

\* Mutant of Check: a key counts as used once a call that carried it is
\* over, whatever its end; the later call is answered with what is stored.
CheckAttempts(c) ==
  /\ calls[c].pc = "check"
  /\ LET found == {o \in orders : o.idempotencyKey = calls[c].dto.idempotencyKey}
         tried == \E d \in CallIds \ {c} :
                    /\ calls[d].dto.idempotencyKey = calls[c].dto.idempotencyKey
                    /\ calls[d].pc = "done"
     IN  IF found # {} \/ tried
         THEN SetCall(c, [calls[c] EXCEPT
                !.pc = "hit_commit",
                !.existingOrder = IF found # {} THEN {CHOOSE o \in found : TRUE} ELSE {}])
         ELSE SetCall(c, [calls[c] EXCEPT !.pc = "user"])
  /\ UNCHANGED << stock, price, orders, faults, loaders, list >>

\* Mutant of Check: a found order is returned only to a request of the user
\* of the order; a request of another user with the key is a conflict.
CheckSameUser(c) ==
  /\ calls[c].pc = "check"
  /\ LET found == {o \in orders : o.idempotencyKey = calls[c].dto.idempotencyKey}
     IN  IF found # {}
         THEN IF \A o \in found : o.userId = calls[c].dto.userId
              THEN SetCall(c, [calls[c] EXCEPT !.pc = "hit_commit",
                                              !.existingOrder = {CHOOSE o \in found : TRUE}])
              ELSE SetCall(c, Throw(calls[c],
                     [UniqueViolation EXCEPT !.name = "ConflictException"]))
         ELSE SetCall(c, [calls[c] EXCEPT !.pc = "user"])
  /\ UNCHANGED << stock, price, orders, faults, loaders, list >>

\* Mutant of Check: the call goes on without looking the key up.
CheckNoLookup(c) ==
  /\ calls[c].pc = "check"
  /\ SetCall(c, [calls[c] EXCEPT !.pc = "user"])
  /\ UNCHANGED << stock, price, orders, faults, loaders, list >>

\* orders.service.ts:70-81, the idempotency check: findOne reads the
\* committed orders (READ COMMITTED never shows another call's txOrder).
Check(c) ==
  /\ calls[c].pc = "check"
  /\ LET found == {o \in orders : o.idempotencyKey = calls[c].dto.idempotencyKey}
     IN  IF found # {}
         THEN SetCall(c, [calls[c] EXCEPT !.pc = "hit_commit",
                                         !.existingOrder = {CHOOSE o \in found : TRUE}])
         ELSE SetCall(c, [calls[c] EXCEPT !.pc = "user"])
  /\ UNCHANGED << stock, price, orders, faults, loaders, list >>

\* Mutant of HitCommit: the replay returns the order at the prices of now.
HitCommitRepriced(c) ==
  /\ calls[c].pc = "hit_commit"
  /\ LET Repriced(o) ==
           [o EXCEPT !.items =
              [i \in 1..Len(o.items) |->
                 [o.items[i] EXCEPT
                    !.price = price[o.items[i].productId] * o.items[i].quantity]]]
     IN  SetCall(c, [calls[c] EXCEPT !.pc = "done", !.outcome = "returned",
                                     !.returned = {Repriced(o) : o \in calls[c].existingOrder},
                                     !.existingOrder = {}, !.released = @ + 1])
  /\ UNCHANGED << stock, price, orders, faults, loaders, list >>

\* orders.service.ts:79-80 and 179-181: commit of the empty transaction,
\* return existingOrder, release the query runner on the way out.
HitCommit(c) ==
  /\ calls[c].pc = "hit_commit"
  /\ SetCall(c, [calls[c] EXCEPT !.pc = "done", !.outcome = "returned",
                                 !.returned = calls[c].existingOrder,
                                 !.existingOrder = {}, !.released = @ + 1])
  /\ UNCHANGED << stock, price, orders, faults, loaders, list >>

\* Mutant of ValidateUser: the call goes on whoever the user is.
ValidateUserAny(c) ==
  /\ calls[c].pc = "user"
  /\ SetCall(c, [calls[c] EXCEPT !.pc = "lock"])
  /\ UNCHANGED << stock, price, orders, faults, loaders, list >>

\* orders.service.ts:84-90.
ValidateUser(c) ==
  /\ calls[c].pc = "user"
  /\ IF calls[c].dto.userId \in Users
     THEN SetCall(c, [calls[c] EXCEPT !.pc = "lock"])
     ELSE SetCall(c, Throw(calls[c], UserNotFound(calls[c].dto.userId)))
  /\ UNCHANGED << stock, price, orders, faults, loaders, list >>

\* orders.service.ts:97-98.
UniqueProductIds(dto) == {dto.items[i].productId : i \in 1..Len(dto.items)}

\* The rows the SELECT of orders.service.ts:100-105 has still to lock and
\* fetch: the rows of the ids of the IN list that it has not fetched yet.
RowsToLock(c) == (UniqueProductIds(calls[c].dto) \cap Products) \ DOMAIN calls[c].products

\* Mutant of NextRow: ORDER BY product.id DESC.
NextRowDesc(ids) == CHOOSE p \in ids : \A q \in ids : p >= q

\* orders.service.ts:104, ORDER BY product.id ASC: the row locked next.
NextRow(ids) == CHOOSE p \in ids : \A q \in ids : p <= q

\* Who holds the row lock of product p.
LockHolders(p) == {d \in CallIds : p \in calls[d].locks}

\* Mutant of LockRow: the SELECT without setLock, a plain read of the row.
LockRowNoLock(c) ==
  /\ calls[c].pc = "lock"
  /\ RowsToLock(c) # {}
  /\ LET p == NextRow(RowsToLock(c))
     IN  SetCall(c, [calls[c] EXCEPT
                !.products = [q \in DOMAIN @ \cup {p} |->
                                IF q = p THEN [stock |-> stock[p], price |-> price[p]]
                                         ELSE @[q]]])
  /\ UNCHANGED << stock, price, orders, faults, loaders, list >>

\* Mutant of LockRow: the SELECT with a waiting lock ('pessimistic_write')
\* and without the ORDER BY: rows are locked in the order of the request,
\* and a row held by another transaction is waited for.
LockRowWaitUnsorted(c) ==
  /\ calls[c].pc = "lock"
  /\ RowsToLock(c) # {}
  /\ LET items == calls[c].dto.items
         i == CHOOSE k \in 1..Len(items) :
                /\ items[k].productId \in RowsToLock(c)
                /\ \A j \in 1..(k - 1) : items[j].productId \notin RowsToLock(c)
         p == items[i].productId
     IN  /\ LockHolders(p) \ {c} = {}
         /\ SetCall(c, [calls[c] EXCEPT
                !.locks = @ \cup {p},
                !.products = [q \in DOMAIN @ \cup {p} |->
                                IF q = p THEN [stock |-> stock[p], price |-> price[p]]
                                         ELSE @[q]]])
  /\ UNCHANGED << stock, price, orders, faults, loaders, list >>

\* Mutant of LockRow: the SELECT with a waiting lock ('pessimistic_write'),
\* still in ascending id order.
LockRowWait(c) ==
  /\ calls[c].pc = "lock"
  /\ RowsToLock(c) # {}
  /\ LET p == NextRow(RowsToLock(c))
     IN  /\ LockHolders(p) \ {c} = {}
         /\ SetCall(c, [calls[c] EXCEPT
                !.locks = @ \cup {p},
                !.products = [q \in DOMAIN @ \cup {p} |->
                                IF q = p THEN [stock |-> stock[p], price |-> price[p]]
                                         ELSE @[q]]])
  /\ UNCHANGED << stock, price, orders, faults, loaders, list >>

\* Mutant of LockRow: the lock failure is rethrown as a ConflictException.
LockRowConflict(c) ==
  /\ calls[c].pc = "lock"
  /\ RowsToLock(c) # {}
  /\ LET p == NextRow(RowsToLock(c))
     IN  IF LockHolders(p) \ {c} # {}
         THEN SetCall(c, Throw(calls[c],
                [LockNotAvailable(p) EXCEPT !.name = "ConflictException"]))
         ELSE SetCall(c, [calls[c] EXCEPT
                !.locks = @ \cup {p},
                !.products = [q \in DOMAIN @ \cup {p} |->
                                IF q = p THEN [stock |-> stock[p], price |-> price[p]]
                                         ELSE @[q]]])
  /\ UNCHANGED << stock, price, orders, faults, loaders, list >>

\* Mutant of LockRow: the SELECT with a shared lock ('pessimistic_read'),
\* which any number of transactions hold on a row at a time.
LockRowShared(c) ==
  /\ calls[c].pc = "lock"
  /\ RowsToLock(c) # {}
  /\ LET p == NextRow(RowsToLock(c))
     IN  SetCall(c, [calls[c] EXCEPT
                !.locks = @ \cup {p},
                !.products = [q \in DOMAIN @ \cup {p} |->
                                IF q = p THEN [stock |-> stock[p], price |-> price[p]]
                                         ELSE @[q]]])
  /\ UNCHANGED << stock, price, orders, faults, loaders, list >>

\* Mutant of LockRow: one lock for the whole products table, taken or
\* refused at once, in place of the row locks.
LockRowTable(c) ==
  /\ calls[c].pc = "lock"
  /\ RowsToLock(c) # {}
  /\ LET p == NextRow(RowsToLock(c))
     IN  IF \E d \in CallIds \ {c} : calls[d].locks # {}
         THEN SetCall(c, Throw(calls[c], LockNotAvailable(p)))
         ELSE SetCall(c, [calls[c] EXCEPT
                !.locks = @ \cup {p},
                !.products = [q \in DOMAIN @ \cup {p} |->
                                IF q = p THEN [stock |-> stock[p], price |-> price[p]]
                                         ELSE @[q]]])
  /\ UNCHANGED << stock, price, orders, faults, loaders, list >>

\* Mutant of LockRow: the SELECT without the ORDER BY: rows are locked in
\* the order of the request, still failing at once on a locked row.
LockRowUnsorted(c) ==
  /\ calls[c].pc = "lock"
  /\ RowsToLock(c) # {}
  /\ LET items == calls[c].dto.items
         i == CHOOSE k \in 1..Len(items) :
                /\ items[k].productId \in RowsToLock(c)
                /\ \A j \in 1..(k - 1) : items[j].productId \notin RowsToLock(c)
         p == items[i].productId
     IN  IF LockHolders(p) \ {c} # {}
         THEN SetCall(c, Throw(calls[c], LockNotAvailable(p)))
         ELSE SetCall(c, [calls[c] EXCEPT
                !.locks = @ \cup {p},
                !.products = [q \in DOMAIN @ \cup {p} |->
                                IF q = p THEN [stock |-> stock[p], price |-> price[p]]
                                         ELSE @[q]]])
  /\ UNCHANGED << stock, price, orders, faults, loaders, list >>

\* orders.service.ts:100-105, one row of SELECT ... FOR NO KEY UPDATE NOWAIT:
\* a row locked by another transaction fails the statement at once, a free
\* row is locked and its latest committed version is read.
LockRow(c) ==
  /\ calls[c].pc = "lock"
  /\ RowsToLock(c) # {}
  /\ LET p == NextRow(RowsToLock(c))
     IN  IF LockHolders(p) \ {c} # {}
         THEN SetCall(c, Throw(calls[c], LockNotAvailable(p)))
         ELSE SetCall(c, [calls[c] EXCEPT
                !.locks = @ \cup {p},
                !.products = [q \in DOMAIN @ \cup {p} |->
                                IF q = p THEN [stock |-> stock[p], price |-> price[p]]
                                         ELSE @[q]]])
  /\ UNCHANGED << stock, price, orders, faults, loaders, list >>

\* Mutant of ProcessItems: the total adds the unit price of each line, not
\* the price of the line.
RECURSIVE ProcessItemsUnitTotal(_, _, _)
ProcessItemsUnitTotal(items, i, st) ==
  IF i > Len(items) \/ st.error # NoError
  THEN st
  ELSE LET item == items[i]
       IN  IF item.productId \notin DOMAIN st.products
           THEN [st EXCEPT !.error = ProductsNotFound({item.productId})]
           ELSE LET product == st.products[item.productId]
                    linePrice == product.price * item.quantity
                IN  IF product.stock < item.quantity
                    THEN [st EXCEPT !.error =
                           InsufficientStock(item.productId, item.quantity, product.stock)]
                    ELSE ProcessItemsUnitTotal(items, i + 1,
                           [ products   |-> [st.products EXCEPT
                                               ![item.productId].stock = @ - item.quantity],
                             orderItems |-> Append(st.orderItems,
                                               [productId |-> item.productId,
                                                quantity  |-> item.quantity,
                                                price     |-> linePrice]),
                             totalPrice |-> st.totalPrice + product.price,
                             error      |-> NoError ])

\* Mutant of ProcessItems: a product that an earlier line of the call has
\* already taken from is checked, and not deducted again.
RECURSIVE ProcessItemsDeductOnce(_, _, _)
ProcessItemsDeductOnce(items, i, st) ==
  IF i > Len(items) \/ st.error # NoError
  THEN st
  ELSE LET item == items[i]
       IN  IF item.productId \notin DOMAIN st.products
           THEN [st EXCEPT !.error = ProductsNotFound({item.productId})]
           ELSE LET product == st.products[item.productId]
                    linePrice == product.price * item.quantity
                    seen == \E k \in 1..Len(st.orderItems) :
                              st.orderItems[k].productId = item.productId
                IN  IF product.stock < item.quantity
                    THEN [st EXCEPT !.error =
                           InsufficientStock(item.productId, item.quantity, product.stock)]
                    ELSE ProcessItemsDeductOnce(items, i + 1,
                           [ products   |-> [st.products EXCEPT
                                               ![item.productId].stock =
                                                 IF seen THEN @ ELSE @ - item.quantity],
                             orderItems |-> Append(st.orderItems,
                                               [productId |-> item.productId,
                                                quantity  |-> item.quantity,
                                                price     |-> linePrice]),
                             totalPrice |-> st.totalPrice + linePrice,
                             error      |-> NoError ])

\* Mutant of ProcessItems: a line that asks for all that is left is refused.
RECURSIVE ProcessItemsStrict(_, _, _)
ProcessItemsStrict(items, i, st) ==
  IF i > Len(items) \/ st.error # NoError
  THEN st
  ELSE LET item == items[i]
       IN  IF item.productId \notin DOMAIN st.products
           THEN [st EXCEPT !.error = ProductsNotFound({item.productId})]
           ELSE LET product == st.products[item.productId]
                    linePrice == product.price * item.quantity
                IN  IF product.stock <= item.quantity
                    THEN [st EXCEPT !.error =
                           InsufficientStock(item.productId, item.quantity, product.stock)]
                    ELSE ProcessItemsStrict(items, i + 1,
                           [ products   |-> [st.products EXCEPT
                                               ![item.productId].stock = @ - item.quantity],
                             orderItems |-> Append(st.orderItems,
                                               [productId |-> item.productId,
                                                quantity  |-> item.quantity,
                                                price     |-> linePrice]),
                             totalPrice |-> st.totalPrice + linePrice,
                             error      |-> NoError ])

\* Mutant of ProcessItems: the loop without the stock check of line 128.
RECURSIVE ProcessItemsUnchecked(_, _, _)
ProcessItemsUnchecked(items, i, st) ==
  IF i > Len(items) \/ st.error # NoError
  THEN st
  ELSE LET item == items[i]
       IN  IF item.productId \notin DOMAIN st.products
           THEN [st EXCEPT !.error = ProductsNotFound({item.productId})]
           ELSE LET product == st.products[item.productId]
                    linePrice == product.price * item.quantity
                IN  ProcessItemsUnchecked(items, i + 1,
                      [ products   |-> [st.products EXCEPT
                                          ![item.productId].stock = @ - item.quantity],
                        orderItems |-> Append(st.orderItems,
                                          [productId |-> item.productId,
                                           quantity  |-> item.quantity,
                                           price     |-> linePrice]),
                        totalPrice |-> st.totalPrice + linePrice,
                        error      |-> NoError ])

\* orders.service.ts:118-146, the loop over dto.items from line i on.
\* st = [products, orderItems, totalPrice, error].
RECURSIVE ProcessItems(_, _, _)
ProcessItems(items, i, st) ==
  IF i > Len(items) \/ st.error # NoError
  THEN st
  ELSE LET item == items[i]
       IN  IF item.productId \notin DOMAIN st.products
           THEN [st EXCEPT !.error = ProductsNotFound({item.productId})]
           ELSE LET product == st.products[item.productId]
                    linePrice == product.price * item.quantity
                IN  IF product.stock < item.quantity
                    THEN [st EXCEPT !.error =
                           InsufficientStock(item.productId, item.quantity, product.stock)]
                    ELSE ProcessItems(items, i + 1,
                           [ products   |-> [st.products EXCEPT
                                               ![item.productId].stock = @ - item.quantity],
                             orderItems |-> Append(st.orderItems,
                                               [productId |-> item.productId,
                                                quantity  |-> item.quantity,
                                                price     |-> linePrice]),
                             totalPrice |-> st.totalPrice + linePrice,
                             error      |-> NoError ])

\* Mutant of ValidateStock: the NotFound names every requested product.
ValidateStockNamesAll(c) ==
  /\ calls[c].pc = "lock"
  /\ RowsToLock(c) = {}
  /\ LET call    == calls[c]
         ids     == UniqueProductIds(call.dto)
         st      == ProcessItems(call.dto.items, 1,
                      [products |-> call.products, orderItems |-> << >>,
                       totalPrice |-> 0, error |-> NoError])
     IN  IF Cardinality(DOMAIN call.products) # Cardinality(ids)
         THEN SetCall(c, Throw(call, ProductsNotFound(ids)))
         ELSE IF st.error # NoError
         THEN SetCall(c, Throw(call, st.error))
         ELSE SetCall(c, [call EXCEPT !.pc = "save_products",
                                      !.products = st.products,
                                      !.orderItems = st.orderItems,
                                      !.totalPrice = st.totalPrice])
  /\ UNCHANGED << stock, price, orders, faults, loaders, list >>

\* orders.service.ts:107-146, after the last row is locked: the existence
\* check, then stock validation, deduction and pricing in memory.
ValidateStock(c) ==
  /\ calls[c].pc = "lock"
  /\ RowsToLock(c) = {}
  /\ LET call    == calls[c]
         ids     == UniqueProductIds(call.dto)
         missing == ids \ DOMAIN call.products
         st      == ProcessItems(call.dto.items, 1,
                      [products |-> call.products, orderItems |-> << >>,
                       totalPrice |-> 0, error |-> NoError])
     IN  IF Cardinality(DOMAIN call.products) # Cardinality(ids)
         THEN SetCall(c, Throw(call, ProductsNotFound(missing)))
         ELSE IF st.error # NoError
         THEN SetCall(c, Throw(call, st.error))
         ELSE SetCall(c, [call EXCEPT !.pc = "save_products",
                                      !.products = st.products,
                                      !.orderItems = st.orderItems,
                                      !.totalPrice = st.totalPrice])
  /\ UNCHANGED << stock, price, orders, faults, loaders, list >>

\* Mutant of SaveProducts: the save goes through a repository outside the
\* transaction of the query runner and is committed at once.
SaveProductsAutocommit(c) ==
  /\ calls[c].pc = "save_products"
  /\ stock' = [p \in Products |->
                 IF p \in DOMAIN calls[c].products THEN calls[c].products[p].stock
                                                   ELSE stock[p]]
  /\ SetCall(c, [calls[c] EXCEPT !.pc = "save_order"])
  /\ UNCHANGED << price, orders, faults, loaders, list >>

\* Mutant of SaveProducts: the UPDATE without its WHERE clause takes a unit
\* off every row that the call has not read.
SaveProductsEveryRow(c) ==
  /\ calls[c].pc = "save_products"
  /\ SetCall(c, [calls[c] EXCEPT
       !.pc = "save_order",
       !.txStock = [p \in Products |->
                      IF p \in DOMAIN calls[c].products THEN calls[c].products[p].stock
                                                        ELSE stock[p] - 1]])
  /\ UNCHANGED << stock, price, orders, faults, loaders, list >>

\* orders.service.ts:149: the UPDATEs of the locked rows, uncommitted.
SaveProducts(c) ==
  /\ calls[c].pc = "save_products"
  /\ SetCall(c, [calls[c] EXCEPT
       !.pc = "save_order",
       !.txStock = [p \in DOMAIN calls[c].products |-> calls[c].products[p].stock]])
  /\ UNCHANGED << stock, price, orders, faults, loaders, list >>

\* Mutant of NewOrder: the status is left to the default of the column.
NewOrderPending(c) ==
  [ id             |-> c,
    userId         |-> calls[c].dto.userId,
    totalPrice     |-> calls[c].totalPrice,
    status         |-> "pending",
    idempotencyKey |-> calls[c].dto.idempotencyKey,
    items          |-> calls[c].orderItems ]

\* orders.service.ts:152-157: the Order entity, with the id the insert gives
\* it (a fresh uuid; a call inserts at most once, so its number stands for it).
NewOrder(c) ==
  [ id             |-> c,
    userId         |-> calls[c].dto.userId,
    totalPrice     |-> calls[c].totalPrice,
    status         |-> "confirmed",
    idempotencyKey |-> calls[c].dto.idempotencyKey,
    items          |-> calls[c].orderItems ]

\* Calls other than c with an uncommitted order row of the key of c.
PendingSameKey(c) ==
  {d \in CallIds \ {c} :
     \E o \in calls[d].txOrder : o.idempotencyKey = calls[c].dto.idempotencyKey}

\* Mutant of SaveOrder: the orders table without the UNIQUE constraint.
SaveOrderNoUnique(c) ==
  /\ calls[c].pc = "save_order"
  /\ SetCall(c, [calls[c] EXCEPT !.pc = "commit", !.txOrder = {NewOrder(c)}])
  /\ UNCHANGED << stock, price, orders, faults, loaders, list >>

\* orders.service.ts:159 under UQ_1881ab845832ad82c4e45f5fe3b: the INSERT
\* fails on a committed row of the same key, waits for the end of a
\* transaction that has inserted the key and not committed, and else inserts
\* the order and its items, uncommitted.
SaveOrder(c) ==
  /\ calls[c].pc = "save_order"
  /\ PendingSameKey(c) = {}
  /\ IF \E o \in orders : o.idempotencyKey = calls[c].dto.idempotencyKey
     THEN SetCall(c, Throw(calls[c], UniqueViolation))
     ELSE SetCall(c, [calls[c] EXCEPT !.pc = "commit", !.txOrder = {NewOrder(c)}])
  /\ UNCHANGED << stock, price, orders, faults, loaders, list >>

\* orders.service.ts:162-169 and 179-181: COMMIT publishes the writes and
\* frees the locks; the call returns savedOrder and releases the query runner.
Commit(c) ==
  /\ calls[c].pc = "commit"
  /\ stock' = [p \in Products |->
                 IF p \in DOMAIN calls[c].txStock THEN calls[c].txStock[p] ELSE stock[p]]
  /\ orders' = orders \cup calls[c].txOrder
  /\ SetCall(c, [calls[c] EXCEPT !.pc = "done", !.outcome = "returned",
                                 !.returned = calls[c].txOrder, !.released = @ + 1,
                                 !.locks = {}, !.txStock = EmptyMap, !.txOrder = {},
                                 !.products = EmptyMap, !.orderItems = << >>,
                                 !.totalPrice = 0])
  /\ UNCHANGED << price, faults, loaders, list >>

\* Mutant of Rollback: the catch block rethrows without a ROLLBACK, and the
\* connection goes back to the pool with its transaction open.
RollbackSkipped(c) ==
  /\ calls[c].pc = "rollback"
  /\ SetCall(c, [calls[c] EXCEPT !.pc = "done", !.outcome = "thrown",
                                 !.released = @ + 1])
  /\ UNCHANGED << stock, price, orders, faults, loaders, list >>

\* Mutant of Rollback: the catch block ends the transaction with a commit.
RollbackCommits(c) ==
  /\ calls[c].pc = "rollback"
  /\ stock' = [p \in Products |->
                 IF p \in DOMAIN calls[c].txStock THEN calls[c].txStock[p] ELSE stock[p]]
  /\ orders' = orders \cup calls[c].txOrder
  /\ SetCall(c, [calls[c] EXCEPT !.pc = "done", !.outcome = "thrown",
                                 !.released = @ + 1,
                                 !.locks = {}, !.txStock = EmptyMap, !.txOrder = {}])
  /\ UNCHANGED << price, faults, loaders, list >>

\* orders.service.ts:170-181: ROLLBACK drops the writes and frees the locks;
\* the call rethrows the error it caught and releases the query runner.
Rollback(c) ==
  /\ calls[c].pc = "rollback"
  /\ SetCall(c, [calls[c] EXCEPT !.pc = "done", !.outcome = "thrown",
                                 !.released = @ + 1,
                                 !.locks = {}, !.txStock = EmptyMap, !.txOrder = {}])
  /\ UNCHANGED << stock, price, orders, faults, loaders, list >>

\* orders.service.ts:171 throwing (the connection is gone): the server has
\* dropped the transaction, the error of the rollback leaves the catch block
\* in place of the caught one, and the finally block still releases.
RollbackFault(c) ==
  /\ calls[c].pc = "rollback"
  /\ faults < MaxFaults
  /\ faults' = faults + 1
  /\ SetCall(c, [calls[c] EXCEPT !.pc = "done", !.outcome = "thrown",
                                 !.error = StorageFault, !.released = @ + 1,
                                 !.locks = {}, !.txStock = EmptyMap, !.txOrder = {}])
  /\ UNCHANGED << stock, price, orders, loaders, list >>

\* The awaits of the try block (orders.service.ts:70-162).
TryAwaits == {"check", "hit_commit", "user", "lock", "save_products", "save_order", "commit"}

\* A statement of the try block throws a storage fault: it has no effect and
\* control moves to the catch block.
Fault(c) ==
  /\ calls[c].pc \in TryAwaits
  /\ faults < MaxFaults
  /\ faults' = faults + 1
  /\ SetCall(c, Throw(calls[c], StorageFault))
  /\ UNCHANGED << stock, price, orders, loaders, list >>

Next ==
  \/ \E dto \in Requests : Start(dto)
  \/ \E c \in CallIds : Begin(c)
  \/ \E c \in CallIds : BeginFault(c)
  \/ \E c \in CallIds : Check(c)
  \/ \E c \in CallIds : HitCommit(c)
  \/ \E c \in CallIds : ValidateUser(c)
  \/ \E c \in CallIds : LockRow(c)
  \/ \E c \in CallIds : ValidateStock(c)
  \/ \E c \in CallIds : SaveProducts(c)
  \/ \E c \in CallIds : SaveOrder(c)
  \/ \E c \in CallIds : Commit(c)
  \/ \E c \in CallIds : Rollback(c)
  \/ \E c \in CallIds : RollbackFault(c)
  \/ \E c \in CallIds : Fault(c)

Spec == Init /\ [][Next]_vars

\* The steps of call c that the event loop and the database carry out once
\* they are possible; a storage fault is never owed.
Step(c) ==
  /\ c \in CallIds
  /\ \/ Begin(c) \/ Check(c) \/ HitCommit(c) \/ ValidateUser(c) \/ LockRow(c)
     \/ ValidateStock(c) \/ SaveProducts(c) \/ SaveOrder(c) \/ Commit(c) \/ Rollback(c)

\* Every awaited promise of a call in flight is settled in the end.
FairSpec == Spec /\ \A c \in 1..MaxCalls : WF_vars(Step(c))

\* ------------------------------------------------------- notions of claims
Done(c) == calls[c].pc = "done"
Succeeded(c) == calls[c].outcome = "returned"
Failed(c) == calls[c].outcome = "thrown"
\* The call inserted and committed the order it returned.
Created(c) == Succeeded(c) /\ \E o \in calls[c].returned : o.id = c
\* The call was struck by a storage fault.
Faulted(c) == calls[c].error.code = "storage_fault"
KeyOf(c) == calls[c].dto.idempotencyKey
ProductsOf(c) == UniqueProductIds(calls[c].dto)

\* Quantity of product p over the lines items[i..].
RECURSIVE SumQty(_, _, _)
SumQty(items, p, i) ==
  IF i > Len(items) THEN 0
  ELSE (IF items[i].productId = p THEN items[i].quantity ELSE 0) + SumQty(items, p, i + 1)

\* Quantity of product p over the lines of the orders os.
RECURSIVE OrderedQty(_, _)
OrderedQty(os, p) ==
  IF os = {} THEN 0
  ELSE LET o == CHOOSE x \in os : TRUE
       IN  SumQty(o.items, p, 1) + OrderedQty(os \ {o}, p)

\* Call c moves in this step.
Moves(c) == calls'[c] # calls[c]

\* ------------------------------------------------------------------ claims

\* C1: in every reachable state, between the steps of calls in flight too,
\* the stock of every product row is >= 0: the committed stock and the stock
\* a transaction has written and not committed.
C1_StockNeverNegative ==
  /\ \A p \in Products : stock[p] >= 0
  /\ \A c \in CallIds : \A p \in DOMAIN calls[c].txStock : calls[c].txStock[p] >= 0

\* C1 witness: one call took the last unit of a product and another call was
\* refused for that product with nothing available.
C1_Witness ==
  \E c \in CallIds, d \in CallIds, p \in Products :
    /\ Created(c) /\ p \in ProductsOf(c) /\ stock[p] = 0
    /\ Failed(d) /\ calls[d].error.code = "stock" /\ calls[d].error.ids = {p}
    /\ calls[d].error.available = 0

\* The two calls of C2: one line of quantity 1 of product p each, different
\* keys, a known user, no storage fault, and no other call that touches p or
\* uses one of the two keys.
Competing(c, d, p) ==
  /\ c # d
  /\ calls[c].dto.items = << Line(p, 1) >> /\ calls[d].dto.items = << Line(p, 1) >>
  /\ KeyOf(c) # KeyOf(d)
  /\ calls[c].dto.userId \in Users /\ calls[d].dto.userId \in Users
  /\ ~Faulted(c) /\ ~Faulted(d)
  /\ \A e \in CallIds \ {c, d} : p \notin ProductsOf(e) /\ KeyOf(e) \notin {KeyOf(c), KeyOf(d)}

\* C2: two calls with different keys that each ask for quantity 1 of a
\* product with stock 1: once both are over, exactly one has succeeded, the
\* other has failed with insufficient stock (Conflict) or with the lock not
\* available (contention), and the stock is 0.
C2_ExactlyOneWins ==
  \A c \in CallIds, d \in CallIds, p \in Products :
    (Competing(c, d, p) /\ InitStock[p] = 1 /\ Done(c) /\ Done(d)) =>
      /\ Succeeded(c) # Succeeded(d)
      /\ \A e \in {c, d} :
           Failed(e) => calls[e].error \in {InsufficientStock(p, 1, 0), LockNotAvailable(p)}
      /\ stock[p] = 0

\* C2 witness: the loser was turned away by the row lock of the winner.
C2_Witness ==
  \E c \in CallIds, d \in CallIds, p \in Products :
    /\ Competing(c, d, p) /\ InitStock[p] = 1 /\ Done(c) /\ Done(d)
    /\ Succeeded(c) /\ calls[d].error = LockNotAvailable(p)

\* C3: the stock of every product is its initial stock minus the quantities
\* of the lines of the committed orders that reference it, in every state
\* (so after any set of completed calls): no update is lost and no aborted
\* call leaves a deduction.
C3_StockConservation ==
  \A p \in Products : stock[p] = InitStock[p] - OrderedQty(orders, p)

\* C3 witness: two committed orders that both took stock of one product.
C3_Witness ==
  \E o1 \in orders, o2 \in orders, p \in Products :
    /\ o1 # o2
    /\ SumQty(o1.items, p, 1) > 0 /\ SumQty(o2.items, p, 1) > 0
    /\ \A c \in CallIds : Done(c)
\* The committed orders of the key of call c.
ExistingFor(c) == {o \in orders : o.idempotencyKey = KeyOf(c)}

\* A step of call c made while a committed order of its key exists and c is
\* not past the idempotency check: it is the next step of the replay path
\* (begin, check, hit, return), it changes no stock and no order, takes no
\* lock and writes nothing, and the call returns the existing order.
ReplayStep(c) ==
  (ExistingFor(c) # {} /\ calls[c].pc \in {"begin", "check", "hit_commit"}
     /\ Moves(c) /\ faults' = faults) =>
    /\ stock' = stock /\ orders' = orders
    /\ calls'[c].locks = {} /\ calls'[c].txStock = EmptyMap /\ calls'[c].txOrder = {}
    /\ calls'[c].pc = (CASE calls[c].pc = "begin" -> "check"
                         [] calls[c].pc = "check" -> "hit_commit"
                         [] OTHER -> "done")
    /\ calls'[c].pc = "done" =>
         calls'[c].outcome = "returned" /\ calls'[c].returned = ExistingFor(c)

\* C4: a call made after a call of the same key has committed its order runs
\* the replay path only: it succeeds with the order of the first call (the
\* same order id), changes no stock and creates no order and no line; all
\* successful calls of one key return the one same order.
C4_IdempotentReplay ==
  /\ [](\A c \in CallIds, d \in CallIds :
          (Succeeded(c) /\ Succeeded(d) /\ KeyOf(c) = KeyOf(d)) =>
            calls[c].returned = calls[d].returned /\ Cardinality(calls[c].returned) = 1)
  /\ [][\A c \in CallIds : ReplayStep(c)]_vars

\* C4 witness: two calls with the same request; the first created the order,
\* the second returned it, and the stock is down by the quantities of one order.
C4_Witness ==
  \E c \in CallIds, d \in CallIds :
    /\ c # d /\ calls[c].dto = calls[d].dto
    /\ Created(c) /\ Done(d) /\ Succeeded(d) /\ calls[d].returned = calls[c].returned
    /\ orders = calls[c].returned
    /\ \A p \in Products : stock[p] = InitStock[p] - SumQty(calls[c].dto.items, p, 1)

\* C5: at most one committed order per idempotencyKey in every state, also
\* when two calls of one key both pass the check: at most one of them creates
\* an order, and when all calls share one key the stock is down by the
\* quantities of that one order only.
C5_OneOrderPerKey ==
  /\ \A o1 \in orders, o2 \in orders : o1.idempotencyKey = o2.idempotencyKey => o1 = o2
  /\ \A c \in CallIds, d \in CallIds :
       (c # d /\ KeyOf(c) = KeyOf(d)) => ~(Created(c) /\ Created(d))
  /\ (\A c \in CallIds, d \in CallIds : KeyOf(c) = KeyOf(d)) =>
       /\ Cardinality(orders) <= 1
       /\ \A p \in Products : stock[p] = InitStock[p] - OrderedQty(orders, p)

\* C5 witness: two calls of one key both passed the check; one created the
\* order, the insert of the other hit the uniqueness constraint.
C5_Witness ==
  \E c \in CallIds, d \in CallIds :
    /\ c # d /\ KeyOf(c) = KeyOf(d)
    /\ Created(c) /\ Done(d) /\ Failed(d) /\ calls[d].error = UniqueViolation

\* C6: a call that fails after its transaction began leaves nothing: no step
\* of a call that does not return changes committed stock or orders, a failed
\* call has no order, no uncommitted write and no lock left, and committed
\* state changes only by the commit of a returning call, which publishes its
\* whole order and all its deductions in one step.
C6_FailureLeavesNothing ==
  /\ [](\A c \in CallIds : Failed(c) =>
          /\ \A o \in orders : o.id # c
          /\ calls[c].locks = {} /\ calls[c].txStock = EmptyMap /\ calls[c].txOrder = {})
  /\ [][\A c \in CallIds :
          (Moves(c) /\ calls'[c].outcome # "returned") => (stock' = stock /\ orders' = orders)]_vars
  /\ [][(stock' # stock \/ orders' # orders) =>
          \E c \in CallIds : \E o \in calls'[c].returned :
            /\ Moves(c) /\ o.id = c /\ orders' = orders \cup {o}
            /\ \A p \in Products : stock'[p] = stock[p] - SumQty(o.items, p, 1)]_vars

\* C6 witness: a call failed on the duplicate key after it had written its
\* stock deductions, and the stock shows the committed orders only.
C6_Witness ==
  \E c \in CallIds :
    /\ Done(c) /\ Failed(c) /\ calls[c].error = UniqueViolation
    /\ \A p \in Products : stock[p] = InitStock[p] - OrderedQty(orders, p)
\* C7: every call that has started completes in the end (it returns or
\* throws), whatever the other calls do; in particular two calls over
\* overlapping products listed in different request orders never block one
\* another for good.
C7_EveryCallCompletes ==
  \A c \in 1..MaxCalls : (c \in CallIds) ~> (c \in CallIds /\ Done(c))

\* C7 witness: two calls over the same two products, listed in opposite
\* orders, are both over, one of them turned away by a lock of the other.
C7_Witness ==
  \E c \in CallIds, d \in CallIds :
    /\ c # d /\ Len(calls[c].dto.items) = 2 /\ Len(calls[d].dto.items) = 2
    /\ calls[c].dto.items[1].productId = calls[d].dto.items[2].productId
    /\ calls[c].dto.items[2].productId = calls[d].dto.items[1].productId
    /\ calls[c].dto.items[1].productId # calls[c].dto.items[2].productId
    /\ Done(c) /\ Done(d)
    /\ calls[d].error.code = "lock_not_available"

\* The next row call c has to lock is held by another transaction.
Contended(c) ==
  /\ calls[c].pc = "lock"
  /\ RowsToLock(c) # {}
  /\ LockHolders(NextRow(RowsToLock(c))) \ {c} # {}

\* C8: lock acquisition never blocks: a call at the locking SELECT can always
\* take its next step, and when the row it needs is held by another
\* transaction that step aborts the call (control goes to the catch block
\* with no lock gained) instead of leaving it at the SELECT.
C8_LockNeverWaits ==
  /\ [](\A c \in CallIds :
          calls[c].pc = "lock" => ENABLED (LockRow(c) \/ ValidateStock(c)))
  /\ [][\A c \in CallIds :
          (Contended(c) /\ Moves(c)) =>
            calls'[c].pc = "rollback" /\ calls'[c].locks = calls[c].locks]_vars

\* C8 witness: a call was aborted at a row that another call in flight holds.
C8_Witness ==
  \E c \in CallIds, d \in CallIds :
    /\ c # d /\ calls[c].pc = "rollback" /\ calls[c].error.code = "lock_not_available"
    /\ calls[c].error.ids \subseteq calls[d].locks

\* C9 as claimed: the error of a call aborted by a locked row is of a kind
\* of its own, distinct from Internal, Conflict and NotFound.
C9_ContentionIsOwnKind ==
  \A c \in CallIds :
    calls[c].error.code = "lock_not_available" =>
      ErrorKind(calls[c].error) \notin {ErrorKind(StorageFault), "Conflict", "NotFound"}

\* C9 as amended: a call aborted by a locked row rethrows the lock error of
\* the storage layer as it is: it is not a Conflict and not a NotFound, it
\* reaches the caller as a 500 like any other storage fault (kind Internal),
\* and the catch block hands it on unchanged.
C9_ContentionIsInternal ==
  /\ [][\A c \in CallIds :
          (Contended(c) /\ Moves(c) /\ faults' = faults) =>
            /\ calls'[c].error = LockNotAvailable(NextRow(RowsToLock(c)))
            /\ HttpStatus(calls'[c].error) = 500
            /\ ErrorKind(calls'[c].error) = ErrorKind(StorageFault)
            /\ ErrorKind(calls'[c].error) \notin {"Conflict", "NotFound"}]_vars
  /\ [][\A c \in CallIds :
          (calls[c].error.code = "lock_not_available" /\ Moves(c) /\ faults' = faults) =>
            /\ calls'[c].pc = "done" /\ calls'[c].outcome = "thrown"
            /\ calls'[c].error = calls[c].error]_vars

\* C9 witness: a call is over, failed with the lock error.
C9_Witness ==
  \E c \in CallIds :
    Done(c) /\ Failed(c) /\ calls[c].error.code = "lock_not_available"

\* C10: the call whose order insert hits the uniqueness constraint is rolled
\* back and reports a Conflict, not an Internal error.
C10_DuplicateKeyIsConflict ==
  \A c \in CallIds :
    (Done(c) /\ calls[c].error = UniqueViolation) =>
      /\ Failed(c) /\ \A o \in orders : o.id # c
      /\ ErrorKind(calls[c].error) = "Conflict"

\* C11: every call that is over, returned or thrown, has released its query
\* runner exactly once, on every path: idempotent hit, commit, rollback, and
\* a storage fault at any step of the call.
C11_ReleasedExactlyOnce ==
  \A c \in CallIds : Done(c) => calls[c].released = 1

\* Sum of the prices of the order lines items[i..].
RECURSIVE SumPrice(_, _)
SumPrice(items, i) ==
  IF i > Len(items) THEN 0 ELSE items[i].price + SumPrice(items, i + 1)

\* C12: for every committed order, totalPrice is the sum of the prices of its
\* lines, and the price of each line is the unit price of its product, as
\* the creating transaction read it from the row it locked, times the
\* quantity of the line (no operation writes a price, so that is the price
\* of the row in every later state).
C12_TotalIsSumOfLinePrices ==
  /\ \A o \in orders :
       /\ o.totalPrice = SumPrice(o.items, 1)
       /\ \A i \in 1..Len(o.items) :
            o.items[i].price = price[o.items[i].productId] * o.items[i].quantity
  /\ \A c \in CallIds : \A o \in calls[c].txOrder :
       /\ o.totalPrice = SumPrice(o.items, 1)
       /\ \A i \in 1..Len(o.items) :
            calls[c].pc = "commit" =>
            o.items[i].price =
              calls[c].products[o.items[i].productId].price * o.items[i].quantity

\* C12 witness: a committed order of two lines, one of them of quantity 2,
\* whose total is above the price of each of its lines.
C12_Witness ==
  \E o \in orders :
    /\ Len(o.items) = 2 /\ o.items[2].quantity = 2
    /\ o.items[2].price = 2 * InitPrice[o.items[2].productId]
    /\ o.totalPrice > o.items[2].price

\* Quantity of product p over the lines items[1..i-1].
SumBefore(items, p, i) == SumQty(items, p, 1) - SumQty(items, p, i)

\* Some product is referenced by two lines of the request of call c.
RepeatsItem(c) ==
  \E i \in 1..Len(calls[c].dto.items), j \in 1..Len(calls[c].dto.items) :
    i # j /\ calls[c].dto.items[i].productId = calls[c].dto.items[j].productId

\* The order lines ls are the lines of the request of call c, one for one.
LinePerInputLine(ls, c) ==
  /\ Len(ls) = Len(calls[c].dto.items)
  /\ \A i \in 1..Len(ls) :
       /\ ls[i].productId = calls[c].dto.items[i].productId
       /\ ls[i].quantity = calls[c].dto.items[i].quantity

\* C13: a call whose lines repeat a product validates and deducts
\* cumulatively.  A refusal for short stock names a line whose quantity is
\* above the stock of its product less the quantities of the earlier lines
\* of that product, all earlier lines having passed; a call about to commit
\* holds, for each product, a sum of quantities <= the stock of the row and
\* writes the stock less exactly that sum; its order, uncommitted and
\* committed, has one line per input line.
C13_RepeatedItemCumulative ==
  \A c \in CallIds : RepeatsItem(c) =>
    LET items == calls[c].dto.items IN
    /\ (calls[c].pc = "rollback" /\ calls[c].error.code = "stock") =>
         \E i \in 1..Len(items) :
           LET p == items[i].productId IN
           /\ calls[c].error =
                InsufficientStock(p, items[i].quantity, stock[p] - SumBefore(items, p, i))
           /\ items[i].quantity > stock[p] - SumBefore(items, p, i)
           /\ \A j \in 1..(i - 1) :
                items[j].quantity <=
                  stock[items[j].productId] - SumBefore(items, items[j].productId, j)
    /\ calls[c].pc = "commit" =>
         /\ \A p \in ProductsOf(c) :
              /\ SumQty(items, p, 1) <= stock[p]
              /\ calls[c].txStock[p] = stock[p] - SumQty(items, p, 1)
         /\ \A o \in calls[c].txOrder : LinePerInputLine(o.items, c)
    /\ \A o \in orders : o.id = c => LinePerInputLine(o.items, c)

\* C13 witness: a call of lines (2 x1, 2 x2) created its order of two lines
\* and took 3 of the stock; a call of lines (2 x3, 2 x2) was refused at its
\* second line with 1 available.
C13_Witness ==
  \E c \in CallIds, d \in CallIds :
    /\ RepeatsItem(c) /\ Created(c) /\ \E o \in orders : o.id = c /\ Len(o.items) = 2
    /\ stock[2] = InitStock[2] - 3
    /\ RepeatsItem(d) /\ Done(d) /\ calls[d].error = InsufficientStock(2, 2, 1)

\* Line i of the request of call c asks for more than the stock of its
\* product less the quantities of the earlier lines of that product.
ShortAt(c, i) ==
  LET items == calls[c].dto.items
      p     == items[i].productId
  IN  items[i].quantity > stock[p] - SumBefore(items, p, i)

\* Call c (its key was fresh at the check, its user exists) holds the locks
\* of all the products of its request, all of which exist, and is at the
\* validation of its lines.
AtValidation(c) ==
  /\ calls[c].pc = "lock"
  /\ ProductsOf(c) \subseteq Products
  /\ RowsToLock(c) = {}

\* C14: a call with a fresh key, an existing user and all its products found
\* and locked fails with a Conflict exactly when some line asks for more
\* than the stock left at that line; the Conflict names the product of the
\* first such line, the quantity asked and the quantity available; else the
\* call goes on to save.  No step of a call refused for stock changes the
\* stock of any product or writes one, the products of the lines that had
\* passed included, and the error reaches the caller as thrown.
C14_ConflictIffShort ==
  /\ [][\A c \in CallIds :
          (AtValidation(c) /\ Moves(c) /\ faults' = faults) =>
            IF \E i \in 1..Len(calls[c].dto.items) : ShortAt(c, i)
            THEN LET items == calls[c].dto.items
                     i == CHOOSE k \in 1..Len(items) :
                            ShortAt(c, k) /\ \A j \in 1..(k - 1) : ~ShortAt(c, j)
                     p == items[i].productId
                 IN  /\ calls'[c].pc = "rollback"
                     /\ calls'[c].error =
                          InsufficientStock(p, items[i].quantity,
                                            stock[p] - SumBefore(items, p, i))
                     /\ ErrorKind(calls'[c].error) = "Conflict"
            ELSE /\ calls'[c].pc = "save_products"
                 /\ calls'[c].error = NoError]_vars
  /\ [][\A c \in CallIds :
          (calls'[c].error.code = "stock" /\ Moves(c)) =>
            /\ stock' = stock /\ orders' = orders
            /\ calls'[c].txStock = EmptyMap /\ calls'[c].txOrder = {}
            /\ calls[c].pc = "rollback" =>
                 /\ calls'[c].pc = "done" /\ calls'[c].outcome = "thrown"
                 /\ calls'[c].error = calls[c].error /\ calls'[c].locks = {}]_vars

\* C14 witness: the call of lines (2 x1, 1 x2) was refused at its second
\* line, 2 asked and 1 available, after its first line had passed; no order
\* exists and every stock is as seeded.
C14_Witness ==
  \E c \in CallIds :
    /\ Done(c) /\ Failed(c) /\ calls[c].error = InsufficientStock(1, 2, 1)
    /\ calls[c].dto.items[1].productId = 2
    /\ orders = {} /\ stock = InitStock

\* C15: a call for a user that does not exist never touches a product row:
\* in every state it holds no row lock, has read no product, has written no
\* stock and no order, is at no step after the user check, and no committed
\* order is its own.  Unless a storage fault struck it, it ends thrown with
\* the NotFound of its user id when its key was fresh at the check (and with
\* the committed order of its key, which another call created, when not).
C15_UnknownUserTouchesNothing ==
  \A c \in CallIds : calls[c].dto.userId \notin Users =>
    /\ calls[c].locks = {} /\ calls[c].products = EmptyMap
    /\ calls[c].txStock = EmptyMap /\ calls[c].txOrder = {}
    /\ calls[c].pc \in {"begin", "check", "hit_commit", "user", "rollback", "done"}
    /\ \A o \in orders : o.id # c
    /\ (Done(c) /\ ~Faulted(c)) =>
         \/ /\ Failed(c)
            /\ calls[c].error = UserNotFound(calls[c].dto.userId)
            /\ ErrorKind(calls[c].error) = "NotFound"
         \/ /\ Succeeded(c)
            /\ calls[c].returned # {} /\ calls[c].returned \subseteq ExistingFor(c)

\* C15 witness: a call for an unknown user has failed with NotFound while
\* another call holds the row lock of the product both ask for.
C15_Witness ==
  \E c \in CallIds, d \in CallIds :
    /\ calls[c].dto.userId \notin Users
    /\ Done(c) /\ calls[c].error = UserNotFound(calls[c].dto.userId)
    /\ calls[d].locks \cap ProductsOf(c) # {}
    /\ stock = InitStock /\ orders = {}

\* The requested products of call c that do not exist.
MissingOf(c) == ProductsOf(c) \ Products

\* C16 as claimed: a call of an existing user, not struck by a storage
\* fault, whose lines reference a product that does not exist and that did
\* not end on the replay path, has failed with the NotFound of its missing
\* product ids.
C16_MissingItemIsNotFound ==
  \A c \in CallIds :
    (calls[c].dto.userId \in Users /\ MissingOf(c) # {}
       /\ Done(c) /\ Failed(c) /\ ~Faulted(c)) =>
      calls[c].error = ProductsNotFound(MissingOf(c))

\* C16 as amended: such a call fails with NotFound once the locking SELECT
\* has given it every existing product it asks for; the error names exactly
\* its distinct requested ids that do not exist.  The call never gets to a
\* write, no step of it changes stock or orders, its locks on the existing
\* products end with the rollback, and the error reaches the caller
\* unchanged.  A call that finds an existing product locked by another
\* transaction fails with the lock error instead.
C16_MissingItemsNamed ==
  /\ [](\A c \in CallIds : MissingOf(c) # {} =>
          /\ calls[c].pc \notin {"save_products", "save_order", "commit"}
          /\ calls[c].txStock = EmptyMap /\ calls[c].txOrder = {}
          /\ \A o \in orders : o.id # c
          /\ (Done(c) /\ Failed(c) /\ calls[c].dto.userId \in Users) =>
               calls[c].error.code \in {"products", "lock_not_available", "storage_fault"})
  /\ [][\A c \in CallIds :
          (MissingOf(c) # {} /\ calls[c].pc = "lock" /\ RowsToLock(c) = {}
             /\ Moves(c) /\ faults' = faults) =>
            /\ calls'[c].pc = "rollback"
            /\ calls'[c].error = ProductsNotFound(MissingOf(c))
            /\ ErrorKind(calls'[c].error) = "NotFound"
            /\ calls'[c].locks = ProductsOf(c) \cap Products
            /\ stock' = stock /\ orders' = orders]_vars
  /\ [][\A c \in CallIds :
          (calls[c].error.code = "products" /\ Moves(c) /\ faults' = faults) =>
            /\ calls'[c].pc = "done" /\ calls'[c].outcome = "thrown"
            /\ calls'[c].error = calls[c].error /\ calls'[c].locks = {}
            /\ stock' = stock /\ orders' = orders]_vars

\* C16 witness: the call of lines (2 x1, 3 x1) locked product 2, failed with
\* the NotFound of product 3 alone and is over; stock and orders are as
\* seeded and no lock is left.
C16_Witness ==
  \E c \in CallIds :
    /\ calls[c].dto.userId \in Users /\ MissingOf(c) = {3} /\ 2 \in ProductsOf(c)
    /\ Done(c) /\ Failed(c) /\ calls[c].error = ProductsNotFound({3})
    /\ calls[c].locks = {} /\ stock = InitStock /\ orders = {}

MaxRequests == 2
\* Calls of load() over all the requests.
MaxLoads == 3
\* Orders committed while the requests are served.
MaxCommits == 1

\* The ids that load() is called with: the products and an id of no row.
LoadKeys == Products \cup {3}

\* The states of the promise that the DataLoader keeps for a key: none yet,
\* pending, or settled with a Product or with an Error.
NoPromise == [kind |-> "none", id |-> 0, stock |-> 0, price |-> 0]
Pending == [kind |-> "pending", id |-> 0, stock |-> 0, price |-> 0]
\* The row of product p as a SELECT reads it now.
ProductRow(p) == [kind |-> "product", id |-> p, stock |-> stock[p], price |-> price[p]]
\* products.service.ts:52, new Error(`Product ${id} not found`).
ProductNotFound(id) == [kind |-> "error", id |-> id, stock |-> 0, price |-> 0]

Settled(promise) == promise.kind \in {"product", "error"}

Range(seq) == {seq[i] : i \in 1..Len(seq)}

\* Mutant of NewLoader: a loader of default scope, one for all requests: a
\* request finds the settled promises of the requests before it.
NewLoaderShared ==
  [ promise   |-> [k \in LoadKeys |->
                     IF loaders # << >> /\ loaders[Len(loaders)].promise[k].kind
                                             \in {"product", "error"}
                     THEN loaders[Len(loaders)].promise[k] ELSE NoPromise],
    batch     |-> << >>,
    inflight  |-> {},
    tickLoads |-> << >>,
    loaded    |-> {},
    loads     |-> 0 ]

\* products.service.ts:43-54: the ProductLoader of a request as constructed,
\* with the empty DataLoader of line 48.
\*   promise   the cache of the DataLoader, key -> promise
\*   batch     the keys of the batch that is being collected in this tick
\*   inflight  the key lists of the findByIds calls that have not returned
\*   tickLoads the keys load() was called with in this tick, call by call
\*   loaded    the keys load() was called with in this request
\*   loads     the number of calls of load() in this request
NewLoader ==
  [ promise   |-> [k \in LoadKeys |-> NoPromise],
    batch     |-> << >>,
    inflight  |-> {},
    tickLoads |-> << >>,
    loaded    |-> {},
    loads     |-> 0 ]

LoaderIds == DOMAIN loaders

\* The state at the start of the GraphQL server: the seeded products, no
\* request yet.
LoaderInit ==
  /\ stock = InitStock
  /\ price = InitPrice
  /\ orders = {}
  /\ calls = << >>
  /\ faults = 0
  /\ loaders = << >>
  /\ list = NoList

\* The loader r with its record replaced by rec.
SetLoader(r, rec) == loaders' = [loaders EXCEPT ![r] = rec]

\* A GraphQL request arrives: Scope.REQUEST gives it a ProductLoader of its own.
NewRequest ==
  /\ Len(loaders) < MaxRequests
  /\ loaders' = Append(loaders, NewLoader)
  /\ UNCHANGED << stock, price, orders, calls, faults, list >>

\* The calls of load() so far, over the loaders ls[i..].
RECURSIVE TotalLoads(_, _)
TotalLoads(ls, i) == IF i > Len(ls) THEN 0 ELSE ls[i].loads + TotalLoads(ls, i + 1)

\* Mutant of Load: a DataLoader with { cache: false }: a key whose promise
\* is settled gets a new promise and joins the batch of the tick again.
LoadNoCache(r, k) ==
  /\ TotalLoads(loaders, 1) < MaxLoads
  /\ SetLoader(r, [loaders[r] EXCEPT
       !.promise[k] = IF @ = NoPromise \/ @.kind \in {"product", "error"}
                      THEN Pending ELSE @,
       !.batch = IF \/ loaders[r].promise[k] = NoPromise
                    \/ loaders[r].promise[k].kind \in {"product", "error"}
                 THEN Append(@, k) ELSE @,
       !.tickLoads = Append(@, k),
       !.loaded = @ \cup {k},
       !.loads = @ + 1])
  /\ UNCHANGED << stock, price, orders, calls, faults, list >>

\* Mutant of Load: every call puts its key on the batch, cached or not.
LoadNoDedup(r, k) ==
  /\ TotalLoads(loaders, 1) < MaxLoads
  /\ SetLoader(r, [loaders[r] EXCEPT
       !.promise[k] = IF @ = NoPromise THEN Pending ELSE @,
       !.batch = Append(@, k),
       !.tickLoads = Append(@, k),
       !.loaded = @ \cup {k},
       !.loads = @ + 1])
  /\ UNCHANGED << stock, price, orders, calls, faults, list >>

\* order-item.resolver.ts:12-14 and products.service.ts:56-58: load(id) of
\* the DataLoader.  A key that has a promise in the cache gets that promise;
\* a new key gets a new promise and joins the batch of the tick.
Load(r, k) ==
  /\ TotalLoads(loaders, 1) < MaxLoads
  /\ SetLoader(r, [loaders[r] EXCEPT
       !.promise[k] = IF @ = NoPromise THEN Pending ELSE @,
       !.batch = IF loaders[r].promise[k] = NoPromise THEN Append(@, k) ELSE @,
       !.tickLoads = Append(@, k),
       !.loaded = @ \cup {k},
       !.loads = @ + 1])
  /\ UNCHANGED << stock, price, orders, calls, faults, list >>

\* The tick in which load() was called ends: the DataLoader dispatches the
\* batch it has collected, which calls the batch function of
\* products.service.ts:48 and so findByIds with the keys of the batch.
EndTick(r) ==
  /\ loaders[r].tickLoads # << >>
  /\ SetLoader(r, [loaders[r] EXCEPT
       !.inflight = IF loaders[r].batch # << >> THEN @ \cup {loaders[r].batch} ELSE @,
       !.batch = << >>,
       !.tickLoads = << >>])
  /\ UNCHANGED << stock, price, orders, calls, faults, list >>

\* products.service.ts:23-29: the results findByIds(ids) can return: the
\* committed rows whose id is in ids, in any order (the SELECT has no ORDER BY).
FindByIds(ids) ==
  IF Len(ids) = 0
  THEN {<< >>}
  ELSE LET found == Range(ids) \cap Products
       IN  {[i \in 1..Cardinality(found) |-> ProductRow(f[i])] :
              f \in {g \in [1..Cardinality(found) -> found] : Range(g) = found}}

\* Mutant of BatchLoadFn: the rows are taken to come back in the order of
\* the keys, one per key.
BatchLoadFnPositional(ids, products) ==
  [i \in 1..Len(ids) |->
     IF i <= Len(products) THEN products[i] ELSE ProductNotFound(ids[i])]

\* products.service.ts:50-52: the values the batch function returns for the
\* keys ids when findByIds returned products.
BatchLoadFn(ids, products) ==
  LET productMap == [id \in {products[i].id : i \in 1..Len(products)} |->
                       CHOOSE row \in Range(products) : row.id = id]
  IN  [i \in 1..Len(ids) |->
         IF ids[i] \in DOMAIN productMap THEN productMap[ids[i]]
                                         ELSE ProductNotFound(ids[i])]

\* products.service.ts:49-53: a findByIds call returns; the DataLoader
\* settles the promise of the i-th key of the batch with the i-th value, a
\* rejection when the value is an Error.
FetchReturns(r) ==
  /\ \E ids \in loaders[r].inflight : \E products \in FindByIds(ids) :
       LET values == BatchLoadFn(ids, products)
       IN  SetLoader(r, [loaders[r] EXCEPT
             !.promise = [k \in LoadKeys |->
                            IF k \in Range(ids)
                            THEN values[CHOOSE i \in 1..Len(ids) : ids[i] = k]
                            ELSE @[k]],
             !.inflight = @ \ {ids}])
  /\ UNCHANGED << stock, price, orders, calls, faults, list >>

\* Units of stock that committed orders have taken so far.
UnitsSold == InitStock[1] - stock[1] + InitStock[2] - stock[2]

\* orders.service.ts:136-162 as the readers of the products table see it:
\* a createOrder call for one unit of product p commits.
OrderCommitted(p) ==
  /\ UnitsSold < MaxCommits
  /\ stock[p] > 0
  /\ stock' = [stock EXCEPT ![p] = @ - 1]
  /\ UNCHANGED << price, orders, calls, faults, loaders, list >>

LoaderNext ==
  \/ NewRequest
  \/ \E r \in LoaderIds, k \in LoadKeys : Load(r, k)
  \/ \E r \in LoaderIds : EndTick(r)
  \/ \E r \in LoaderIds : FetchReturns(r)
  \/ \E p \in Products : OrderCommitted(p)

LoaderSpec == LoaderInit /\ [][LoaderNext]_vars


\* ---------------------------------------------------- claims on the loader
\* The tick of loader r in which load() was called ends in this step.
TickEnds(r) == loaders[r].tickLoads # << >> /\ loaders'[r].tickLoads = << >>

\* The keys that loader r has fetched or is fetching: a findByIds call with
\* the key has been made in an earlier tick.
Fetched(r) ==
  {k \in LoadKeys : Settled(loaders[r].promise[k])}
    \cup UNION {Range(ids) : ids \in loaders[r].inflight}

\* C18 as claimed: the calls of load() made on one loader in one tick cause
\* exactly one findByIds call, and its key list is the set of the distinct
\* keys of those calls, each once.
C18_OneFetchOfTheKeysOfTheTick ==
  [][\A r \in LoaderIds :
       TickEnds(r) =>
         \E ids \in loaders'[r].inflight \ loaders[r].inflight :
           /\ loaders'[r].inflight = loaders[r].inflight \cup {ids}
           /\ Range(ids) = Range(loaders[r].tickLoads)
           /\ Len(ids) = Cardinality(Range(ids))]_vars

\* C18 as amended: the calls of load() made on one loader in one tick cause
\* at most one findByIds call: none when every key of the tick was fetched
\* by this loader in an earlier tick, and else exactly one, whose key list
\* is the set of the distinct keys of the tick that were not, each once.
\* findByIds is called at the end of a tick only, and never with a key twice.
C18_OneFetchOfTheNewKeys ==
  /\ [](\A r \in LoaderIds : \A ids \in loaders[r].inflight :
          Len(ids) > 0 /\ Len(ids) = Cardinality(Range(ids)))
  /\ [][\A r \in LoaderIds :
          LET new == Range(loaders[r].tickLoads) \ Fetched(r) IN
          IF TickEnds(r)
          THEN IF new = {}
               THEN loaders'[r].inflight = loaders[r].inflight
               ELSE \E ids \in loaders'[r].inflight \ loaders[r].inflight :
                      /\ loaders'[r].inflight = loaders[r].inflight \cup {ids}
                      /\ Range(ids) = new
                      /\ Len(ids) = Cardinality(new)
          ELSE loaders'[r].inflight \subseteq loaders[r].inflight]_vars

\* C18 witness: three calls on one loader, two of them with one key, have
\* caused one findByIds call of two keys, which has not returned.
C18_Witness ==
  \E r \in LoaderIds :
    /\ loaders[r].loads = 3 /\ loaders[r].tickLoads = << >>
    /\ Cardinality(loaders[r].loaded) = 2
    /\ \E ids \in loaders[r].inflight :
         loaders[r].inflight = {ids} /\ Range(ids) = loaders[r].loaded
    /\ \A k \in LoadKeys : ~Settled(loaders[r].promise[k])


\* The awaited steps of the loader of request r: the end of the tick and the
\* return of a findByIds call.
LoaderStep(r) == r \in LoaderIds /\ (EndTick(r) \/ FetchReturns(r))

\* Every tick ends and every findByIds call returns.
LoaderFairSpec == LoaderSpec /\ \A r \in 1..MaxRequests : WF_vars(LoaderStep(r))

\* The outcome that the key k has when a findByIds call for it returns now.
OutcomeNow(k) == IF k \in Products THEN ProductRow(k) ELSE ProductNotFound(k)

\* C19: every call of load(key) gets exactly one outcome.  Again and again
\* the promises of all the keys that were loaded are settled, so that each
\* is settled in the end; when a findByIds call returns,
\* in whatever row order, each key of its batch is settled with the product
\* of that id if the row exists and else with the not-found error of that
\* key, and no other promise changes; a settled promise never changes.
C19_OneOutcomePerKey ==
  /\ []<>(\A r \in LoaderIds : \A k \in loaders[r].loaded :
             Settled(loaders[r].promise[k]))
  /\ [](\A r \in LoaderIds : \A k \in LoadKeys :
          /\ k \in loaders[r].loaded <=> loaders[r].promise[k] # NoPromise
          /\ Settled(loaders[r].promise[k]) =>
               /\ loaders[r].promise[k].id = k
               /\ loaders[r].promise[k].kind = "product" <=> k \in Products)
  /\ [][\A r \in LoaderIds : \A ids \in loaders[r].inflight \ loaders'[r].inflight :
          \A k \in LoadKeys :
            loaders'[r].promise[k] =
              IF k \in Range(ids) THEN OutcomeNow(k) ELSE loaders[r].promise[k]]_vars
  /\ [][\A r \in LoaderIds : \A k \in LoadKeys :
          Settled(loaders[r].promise[k]) =>
            loaders'[r].promise[k] = loaders[r].promise[k]]_vars

\* C19 witness: one batch of the two products and the id of no row has
\* returned: the two products are settled with their rows, the third key
\* with its error.
C19_Witness ==
  \E r \in LoaderIds :
    /\ loaders[r].loaded = LoadKeys /\ loaders[r].inflight = {}
    /\ loaders[r].promise[3] = ProductNotFound(3)
    /\ \A p \in Products : loaders[r].promise[p] = ProductRow(p)


\* The call load(k) is made on loader r in this step.
LoadCalled(r, k) ==
  /\ loaders'[r].loads = loaders[r].loads + 1
  /\ loaders'[r].tickLoads = Append(loaders[r].tickLoads, k)

\* C20: a loader serves one request.  A loader knows no key that its own
\* request has not loaded; the first load of a key in a request makes a new
\* promise and puts the key on the batch to fetch, whatever the loaders of
\* other requests hold; a promise is settled only by the return of a
\* findByIds call of its own loader, with the row as stored at that return
\* (or the error of the key); and a step of one loader changes no other.
C20_LoaderServesOneRequest ==
  /\ [](\A r \in LoaderIds : \A k \in LoadKeys \ loaders[r].loaded :
          loaders[r].promise[k] = NoPromise)
  /\ [][\A r \in LoaderIds : \A k \in LoadKeys :
          (LoadCalled(r, k) /\ k \notin loaders[r].loaded) =>
            /\ loaders'[r].promise[k] = Pending
            /\ loaders'[r].batch = Append(loaders[r].batch, k)]_vars
  /\ [][\A r \in LoaderIds : \A k \in LoadKeys :
          (~Settled(loaders[r].promise[k]) /\ Settled(loaders'[r].promise[k])) =>
            /\ \E ids \in loaders[r].inflight \ loaders'[r].inflight : k \in Range(ids)
            /\ loaders'[r].promise[k] = OutcomeNow(k)]_vars
  /\ [][\A r \in LoaderIds, q \in LoaderIds :
          (r # q /\ loaders'[r] # loaders[r]) => loaders'[q] = loaders[q]]_vars

\* C20 witness: two requests loaded product 1, one before and one after the
\* last unit was sold: the first holds the row with stock 1, the second the
\* row with stock 0.
C20_Witness ==
  \E r \in LoaderIds, q \in LoaderIds :
    /\ r < q
    /\ loaders[r].promise[1] = [ProductRow(1) EXCEPT !.stock = 1]
    /\ loaders[q].promise[1] = [ProductRow(1) EXCEPT !.stock = 0]


\* ----------------------------------------------------------- orders query
\* Orders stored while the query is served.
MaxOrders == 3
\* The creation times of the stored orders and the bounds of the date range
\* of the filter: two instants, the earlier and the later.
Times == {1, 2}

\* orders-pagination.input.ts:18-20 and :23.
MinLimit == 1
MaxLimit == 50
DefaultLimit == 20
MinOffset == 0

\* An optional field of an input: absent, or present with one value.
Optional(values) == {{}} \cup {{v} : v \in values}

\* OrdersFilterInput.
Filters ==
  [ status   : Optional({"confirmed", "cancelled"}),
    dateFrom : Optional(Times),
    dateTo   : Optional(Times) ]

\* OrdersPaginationInput as the client sends it; the argument left out is
\* the input with both fields absent.
Paginations ==
  [ limit  : Optional({MinLimit - 1, MinLimit, MinLimit + 1, MaxLimit, MaxLimit + 1}),
    offset : Optional((MinOffset - 1)..MaxOrders) ]

\* The row of the order number id as a createOrder call whose transaction
\* began at time t has committed it (createdAt is the time of the insert's
\* transaction), with one line of one unit of product 2.
StoredOrder(id, t) ==
  [ id             |-> id,
    userId         |-> 1,
    totalPrice     |-> InitPrice[2],
    status         |-> "confirmed",
    idempotencyKey |-> id,
    items          |-> << [productId |-> 2, quantity |-> 1, price |-> InitPrice[2]] >>,
    createdAt      |-> t ]

ListInit ==
  /\ stock = InitStock
  /\ price = InitPrice
  /\ orders = {}
  /\ calls = << >>
  /\ faults = 0
  /\ loaders = << >>
  /\ list = NoList

\* Mutant of OrderStored: the commit of an order cancels the orders stored
\* before it.
OrderStoredCancelling(t) ==
  /\ Cardinality(orders) < MaxOrders
  /\ orders' = {[o EXCEPT !.status = "cancelled"] : o \in orders}
                  \cup {StoredOrder(Cardinality(orders) + 1, t)}
  /\ UNCHANGED << stock, price, calls, faults, loaders, list >>

\* orders.service.ts:152-162 as the readers of the orders table see it: a
\* createOrder call commits its order.
OrderStored(t) ==
  /\ Cardinality(orders) < MaxOrders
  /\ orders' = orders \cup {StoredOrder(Cardinality(orders) + 1, t)}
  /\ UNCHANGED << stock, price, calls, faults, loaders, list >>

\* Mutant of Matches: the upper bound of the date range is exclusive.
MatchesBefore(o, filter) ==
  /\ \A s \in filter.status : o.status = s
  /\ \A t \in filter.dateFrom : o.createdAt >= t
  /\ \A t \in filter.dateTo : o.createdAt < t

\* orders.service.ts:32-42: the WHERE clause of the filter, one condition
\* per field that is present.
Matches(o, filter) ==
  /\ \A s \in filter.status : o.status = s
  /\ \A t \in filter.dateFrom : o.createdAt >= t
  /\ \A t \in filter.dateTo : o.createdAt <= t

\* The stored orders that the filter lets through.
Matching(filter) == {o \in orders : Matches(o, filter)}

\* Mutant of SortedDesc: oldest first.
SortedAsc(S) ==
  {seq \in [1..Cardinality(S) -> S] :
     /\ Range(seq) = S
     /\ \A i \in 1..Len(seq), j \in 1..Len(seq) :
          i < j => seq[i].createdAt <= seq[j].createdAt}

\* orders.service.ts:30, ORDER BY createdAt DESC: the orders S in every
\* sequence the database can return them in (rows of one createdAt come in
\* any order).
SortedDesc(S) ==
  {seq \in [1..Cardinality(S) -> S] :
     /\ Range(seq) = S
     /\ \A i \in 1..Len(seq), j \in 1..Len(seq) :
          i < j => seq[i].createdAt >= seq[j].createdAt}


\* Mutant of ValidPagination: no upper bound on limit.
ValidPaginationNoMax(pagination) ==
  /\ \A n \in pagination.limit : n >= MinLimit
  /\ \A n \in pagination.offset : n >= MinOffset

\* orders-pagination.input.ts:18-19 and :23 under the ValidationPipe:
\* @Min(1) @Max(50) limit, @Min(0) offset.
ValidPagination(pagination) ==
  /\ \A n \in pagination.limit : n >= MinLimit /\ n <= MaxLimit
  /\ \A n \in pagination.offset : n >= MinOffset

\* orders-pagination.input.ts:17-20: the limit sent, or the default.
LimitOf(pagination) ==
  IF pagination.limit = {} THEN DefaultLimit ELSE CHOOSE n \in pagination.limit : TRUE

\* orders-pagination.input.ts:22-24: the offset sent, or the default.
OffsetOf(pagination) ==
  IF pagination.offset = {} THEN MinOffset ELSE CHOOSE n \in pagination.offset : TRUE

\* OFFSET offset LIMIT limit over the rows seq.
Page(seq, limit, offset) ==
  SubSeq(seq, offset + 1, IF offset + limit < Len(seq) THEN offset + limit ELSE Len(seq))

\* Mutant of PageInfo: a page that ends at the last row has a next page.
PageInfoInclusive(limit, offset, totalCount) ==
  [ hasNextPage |-> offset + limit <= totalCount, hasPreviousPage |-> offset > 0 ]

\* The pageInfo of the connection.
PageInfo(limit, offset, totalCount) ==
  [ hasNextPage |-> offset + limit < totalCount, hasPreviousPage |-> offset > 0 ]

\* orders.resolver.ts:16-21 behind the ValidationPipe: the orders query is
\* called.  A pagination input that breaks a constraint is rejected and the
\* service is not called; else findAllPaginated starts with the limit and
\* offset sent or defaulted.
ListStart(filter, pagination) ==
  /\ list.pc = "idle"
  /\ list' = IF ValidPagination(pagination)
             THEN [NoList EXCEPT !.pc = "fetch", !.filter = filter,
                                 !.pagination = pagination,
                                 !.limit = LimitOf(pagination),
                                 !.offset = OffsetOf(pagination)]
             ELSE [NoList EXCEPT !.pc = "done", !.filter = filter,
                                 !.pagination = pagination, !.error = "validation"]
  /\ UNCHANGED << stock, price, orders, calls, faults, loaders >>

\* Mutant of ListFetch: a page without rows is an error.
ListFetchNotEmpty ==
  /\ list.pc = "fetch"
  /\ \E seq \in SortedDesc(Matching(list.filter)) :
       LET page == Page(seq, list.limit, list.offset)
       IN  list' = IF page = << >>
                   THEN [list EXCEPT !.pc = "done", !.error = "not_found"]
                   ELSE [list EXCEPT !.pc = "count", !.nodes = page, !.seen = orders]
  /\ UNCHANGED << stock, price, orders, calls, faults, loaders >>

\* findAllPaginated, the fetch query of getManyAndCount: the matching orders
\* committed by now, newest first, cut to the page.
ListFetch ==
  /\ list.pc = "fetch"
  /\ \E seq \in SortedDesc(Matching(list.filter)) :
       list' = [list EXCEPT !.pc = "count",
                            !.nodes = Page(seq, list.limit, list.offset),
                            !.seen = orders]
  /\ UNCHANGED << stock, price, orders, calls, faults, loaders >>

\* Mutant of ListCount: the count of the rows of the page.
ListCountOfPage ==
  /\ list.pc = "count"
  /\ list' = [list EXCEPT !.pc = "done",
                          !.totalCount = Len(list.nodes),
                          !.pageInfo = PageInfo(list.limit, list.offset, Len(list.nodes))]
  /\ UNCHANGED << stock, price, orders, calls, faults, loaders >>

\* findAllPaginated, the count query of getManyAndCount and the result: the
\* number of matching orders committed by now, and the page flags.
ListCount ==
  /\ list.pc = "count"
  /\ LET totalCount == Cardinality(Matching(list.filter))
     IN  list' = [list EXCEPT !.pc = "done",
                              !.totalCount = totalCount,
                              !.pageInfo = PageInfo(list.limit, list.offset, totalCount)]
  /\ UNCHANGED << stock, price, orders, calls, faults, loaders >>

ListNext ==
  \/ \E t \in Times : OrderStored(t)
  \/ \E filter \in Filters, pagination \in Paginations : ListStart(filter, pagination)
  \/ ListFetch
  \/ ListCount

ListSpec == ListInit /\ [][ListNext]_vars


\* ------------------------------------------------ claims on the orders query
\* The call of the orders query has returned a connection.
Listed == list.pc = "done" /\ list.error = "none"

\* No order was committed between the fetch of the call and now.
FixedSince == list.seen = orders

\* C21: in the connection a call returns, hasNextPage is true exactly when
\* offset + limit < totalCount and hasPreviousPage exactly when offset > 0,
\* with the offset and limit sent or defaulted; so the page at offset
\* max(0, totalCount - limit) has no next page.
C21_PageFlags ==
  Listed =>
    /\ list.pageInfo.hasNextPage <=> (list.offset + list.limit < list.totalCount)
    /\ list.pageInfo.hasPreviousPage <=> (list.offset > 0)
    /\ \A n \in list.pagination.limit : list.limit = n
    /\ \A n \in list.pagination.offset : list.offset = n
    /\ (list.offset = list.totalCount - list.limit
          \/ (list.offset = 0 /\ list.totalCount - list.limit <= 0)) =>
         ~list.pageInfo.hasNextPage

\* C21 witness: the last page of three orders by pages of two, at offset 1:
\* no next page, a previous page.
C21_Witness ==
  /\ Listed /\ list.totalCount = 3 /\ list.limit = 2 /\ list.offset = 1
  /\ ~list.pageInfo.hasNextPage /\ list.pageInfo.hasPreviousPage

\* C22: with no order committed since the call began to read, the totalCount
\* it returns is the number of stored orders that match its filter, whatever
\* limit and offset it was made with.
C22_TotalCountIsMatchCount ==
  (Listed /\ FixedSince) => list.totalCount = Cardinality(Matching(list.filter))

\* C22 witness: a page of one order past the end of which another matching
\* order lies, out of three stored orders of which two match.
C22_Witness ==
  /\ Listed /\ FixedSince /\ Cardinality(orders) = 3
  /\ list.totalCount = 2 /\ Len(list.nodes) = 1 /\ list.offset = 0


\* The smaller and the larger of two numbers.
Smaller(a, b) == IF a < b THEN a ELSE b
Larger(a, b) == IF a > b THEN a ELSE b

\* The orders that matched the filter of the call when it fetched its page.
MatchedAtFetch == {o \in list.seen : Matches(o, list.filter)}

\* The nodes of the call are the positions offset + 1 .. offset + limit of
\* its matching orders in one of their newest-first sequences.
NodesArePage ==
  \E seq \in SortedDesc(MatchedAtFetch) :
    /\ Len(list.nodes) = Smaller(list.limit, Larger(0, Len(seq) - list.offset))
    /\ \A i \in 1..Len(list.nodes) : list.nodes[i] = seq[list.offset + i]

NothingMatches == list.pc = "done" /\ Matching(list.filter) = {}

OutOfRange ==
  \/ \E n \in list.pagination.limit : n < 1 \/ n > 50
  \/ \E n \in list.pagination.offset : n < 0

\* C25: a call whose pagination is omitted runs with limit 20 and offset 0;
\* a call with a limit outside [1, 50] or an offset below 0 ends with a
\* validation error, fetches and counts nothing and returns no page.
C25_DefaultsAndRange ==
  list.pc # "idle" =>
    /\ (list.pagination.limit = {} /\ list.pagination.offset = {}) =>
         /\ list.error = "none"
         /\ list.limit = 20
         /\ list.offset = 0
    /\ OutOfRange =>
         /\ list.pc = "done"
         /\ list.error = "validation"
         /\ list.nodes = << >>
         /\ list.totalCount = 0
         /\ list.seen = {}

\* C25 witness: a call that asked for 51 orders of three stored ones was
\* rejected.
C25_Witness ==
  /\ list.pc = "done" /\ list.error = "validation"
  /\ list.pagination.limit = {51} /\ list.pagination.offset = {0}
  /\ Cardinality(orders) = 3


\* The order satisfies every field that the filter of the call has.
Satisfies(o) ==
  /\ list.filter.status # {} => o.status \in list.filter.status
  /\ list.filter.dateFrom # {} => \E t \in list.filter.dateFrom : o.createdAt >= t
  /\ list.filter.dateTo # {} => \E t \in list.filter.dateTo : o.createdAt <= t

\* The orders among the nodes of the call.
NodeSet == {list.nodes[i] : i \in 1..Len(list.nodes)}

\* C26: every order a call returns satisfies every present field of the
\* filter, with both date bounds inclusive; a page that starts at the first
\* row and is as long as the table holds every stored order that does, and
\* totalCount counts them.
C26_InResultIffEveryFieldHolds ==
  Listed =>
    /\ \A o \in NodeSet : o \in list.seen /\ Satisfies(o)
    /\ (list.offset = 0 /\ list.limit >= Cardinality(list.seen)) =>
         NodeSet = {o \in list.seen : Satisfies(o)}
    /\ FixedSince => list.totalCount = Cardinality({o \in orders : Satisfies(o)})

\* C26 witness: of orders created at times 1 and 2 a call with dateFrom 1
\* and dateTo 1 returned the ones created at 1, the bound itself.
C26_Witness ==
  /\ Listed /\ FixedSince
  /\ list.filter.dateFrom = {1} /\ list.filter.dateTo = {1} /\ list.filter.status = {}
  /\ list.offset = 0 /\ list.limit >= Cardinality(orders)
  /\ NodeSet # {} /\ NodeSet # orders
  /\ \A o \in NodeSet : o.createdAt = 1


\* ------------------------------------------------- POST /orders, the pipe
\* A field that the body of the request does not have.
Undefined == 0
\* The string of length zero.
EmptyString == -1

\* class-validator's IsUUID: the value is there and is an id.
IsUUID(v) == v # Undefined /\ v >= 1
\* class-validator's IsString: the value is there and is a string, of any
\* length.
IsString(v) == v # Undefined

\* part_007:4-11, the decorators of CreateOrderItemDto.
ValidItem(line) == IsUUID(line.productId) /\ line.quantity >= 1

\* part_007:13-24, the decorators of CreateOrderDto.
ValidDto(body) ==
  /\ IsUUID(body.userId)
  /\ Len(body.items) >= 1
  /\ \A i \in 1..Len(body.items) : ValidItem(body.items[i])
  /\ IsString(body.idempotencyKey)

\* The bodies that break a constraint of the pipe or a precondition of
\* CreateOrder.
BadBodies ==
  { Dto(Undefined, 1, << Line(2, 1) >>),      \* no userId
    Dto(1, 1, << >>),                         \* no item
    Dto(1, 1, << Line(2, 1), Line(2, 0) >>),  \* a quantity below 1
    Dto(1, Undefined, << Line(2, 1) >>),      \* no idempotencyKey
    Dto(1, EmptyString, << Line(2, 1) >>) }   \* idempotencyKey ''

\* The error of the ValidationPipe.
BadRequest ==
  [name |-> "BadRequestException", code |-> "validation", ids |-> {},
   requested |-> 0, available |-> 0]

\* A request that the pipe turned down: createOrder was not called.
Rejected(body) ==
  [NewCall(body) EXCEPT !.pc = "done", !.error = BadRequest, !.outcome = "thrown"]

\* OrdersController.create behind the ValidationPipe: a body that breaks a
\* decorator of the DTO is answered with 400 and the service is not called;
\* any other body is handed to createOrder.
Post(body) ==
  /\ Len(calls) < MaxCalls
  /\ calls' = Append(calls, IF ValidDto(body) THEN NewCall(body) ELSE Rejected(body))
  /\ UNCHANGED << stock, price, orders, faults, loaders, list >>

\* The requests of Requests meet every decorator and reach createOrder by
\* Start; the bodies of BadBodies are put to the pipe here.
PostNext ==
  \/ \E body \in BadBodies : Post(body)
  \/ Next

PostSpec == Init /\ [][PostNext]_vars

\* The body breaks a precondition of CreateOrder: no line, a quantity below
\* 1, no or an empty idempotencyKey, no account id.
ViolatesPrecondition(body) ==
  \/ body.items = << >>
  \/ \E i \in 1..Len(body.items) : body.items[i].quantity < 1
  \/ body.idempotencyKey \in {Undefined, EmptyString}
  \/ body.userId = Undefined

\* C27: a request that violates a precondition of CreateOrder is rejected
\* with a Validation error before any transaction begins: it ends with that
\* error without a query runner, and stock, orders and lines stay as they
\* were.
C27_RejectedBeforeTransaction ==
  \A c \in CallIds :
    ViolatesPrecondition(calls[c].dto) =>
      /\ calls[c].pc = "done"
      /\ ErrorKind(calls[c].error) = "Validation"
      /\ calls[c].released = 0
      /\ \A o \in orders : o.idempotencyKey # calls[c].dto.idempotencyKey


\* C28: when a step of createOrder after the idempotency check has failed,
\* the error the call ends with is the error that step raised: the catch
\* block hands on the error it caught.
C28_OriginalErrorReported ==
  [][\A c \in CallIds :
       (calls[c].pc = "rollback" /\ calls'[c].pc = "done") =>
         /\ calls'[c].outcome = "thrown"
         /\ calls'[c].error = calls[c].error]_vars


\* ------------------------------------------------ prices that are changed
\* The products whose unit price is raised in a run, each of them once.
Repriced == {2}

\* product.entity.ts:22-24: price is a column of the products row, which a
\* session outside createOrder updates.  The UPDATE waits for the row lock,
\* so it takes place on a row that no open transaction has locked.
PriceChanged(p) ==
  /\ price[p] = InitPrice[p]
  /\ \A c \in CallIds : p \notin calls[c].locks
  /\ price' = [price EXCEPT ![p] = @ + 1]
  /\ UNCHANGED << stock, orders, calls, faults, loaders, list >>

PriceNext ==
  \/ \E p \in Repriced : PriceChanged(p)
  \/ Next

PriceSpec == Init /\ [][PriceNext]_vars

\* C29: a committed order is never changed: it is among the stored orders
\* of every later state with its id, totalPrice, status and the price and
\* quantity of each line as created, and every order that a call returns,
\* as the one it created or as the replay of an earlier one, is the stored
\* order, also after the unit price of a product of the order has changed.
C29_CommittedOrderIsFrozen ==
  [][/\ \A o \in orders : o \in orders'
     /\ \A c \in DOMAIN calls' : calls'[c].returned \subseteq orders']_vars

\* C29 witness: a replay returned an order whose line still has the price
\* of the time of the order, after the unit price of its product was raised.
C29_Witness ==
  \E c \in CallIds :
    /\ Succeeded(c) /\ ~Created(c)
    /\ \E o \in calls[c].returned :
         /\ o \in orders
         /\ \E i \in 1..Len(o.items) :
              /\ price[o.items[i].productId] # InitPrice[o.items[i].productId]
              /\ o.items[i].price = InitPrice[o.items[i].productId] * o.items[i].quantity


\* The order rows there are: the committed ones, the ones of transactions
\* still open, and the ones that calls have returned.
OrderRows ==
  orders \cup UNION {calls[c].txOrder \cup calls[c].returned : c \in CallIds}

\* C30: every order that createOrder persists has status CONFIRMED: no order
\* row, committed, still uncommitted or returned to a caller, has status
\* PENDING or CANCELLED, in any state that the operations reach.
C30_EveryOrderConfirmed ==
  \A o \in OrderRows : o.status = "confirmed"

\* C30 witness: two calls have each committed an order, and both orders are
\* CONFIRMED.
C30_Witness ==
  /\ Cardinality(orders) = 2
  /\ \A c \in CallIds : Created(c)
  /\ \A o \in orders : o.status = "confirmed"


\* The rows of the products table that the lines of call c name.
ExistingIds(c) == UniqueProductIds(calls[c].dto) \cap Products

\* C31: a call holds row locks only on the existing products of its lines,
\* each product once; it asks for them in ascending id order, so the row it
\* gains or is refused has a higher id than every row it holds; and when its
\* locking SELECT has returned it holds the lock of every such product.
C31_LocksExistingIdsAscending ==
  [][\A c \in CallIds :
       /\ calls'[c].locks \subseteq ExistingIds(c)
       /\ \A p \in calls'[c].locks \ calls[c].locks :
            \A q \in calls[c].locks : q < p
       /\ (calls[c].pc = "lock" /\ calls'[c].error.code = "lock_not_available") =>
            \A p \in calls'[c].error.ids : \A q \in calls[c].locks : q < p
       /\ (calls[c].pc = "lock" /\ ( \/ calls'[c].pc = "save_products"
                                     \/ calls'[c].error.code \in {"products", "stock"} )) =>
            calls[c].locks = ExistingIds(c)]_vars

\* C31 witness: a call whose lines name product 2 before product 1 holds the
\* locks of both (product 1 was locked first).
C31_Witness ==
  \E c \in CallIds :
    /\ calls[c].dto.items[1].productId = 2
    /\ calls[c].locks = {1, 2}
    /\ calls[c].pc = "save_products"


\* Every call of the run is over.
AllDone == CallIds # {} /\ \A c \in CallIds : Done(c)

\* The call was aborted by a row lock that another transaction held.
AbortedByContention(c) == Failed(c) /\ calls[c].error.code = "lock_not_available"

\* Quantity of product p over the lines of the calls cs.
RECURSIVE RequestedQty(_, _)
RequestedQty(cs, p) ==
  IF cs = {} THEN 0
  ELSE LET c == CHOOSE x \in cs : TRUE
       IN  SumQty(calls[c].dto.items, p, 1) + RequestedQty(cs \ {c}, p)

\* The calls of the run have distinct keys, a known user and known products,
\* and the stock is enough for all of them together.
AllServable ==
  /\ \A c \in CallIds, d \in CallIds : c # d => KeyOf(c) # KeyOf(d)
  /\ \A c \in CallIds : calls[c].dto.userId \in Users /\ ProductsOf(c) \subseteq Products
  /\ \A p \in Products : RequestedQty(CallIds, p) <= InitStock[p]

\* C32: the calls of a run never all abort one another: when all are over
\* and no storage fault has struck, at least one of them was not aborted by
\* contention, and when they have distinct keys, a known user, known
\* products and enough stock, at least one of them has committed its order.
C32_NotAllAbortedByContention ==
  (AllDone /\ faults = 0) =>
    /\ \E c \in CallIds : ~AbortedByContention(c)
    /\ AllServable => \E c \in CallIds : Created(c)

\* C32 witness: of two servable calls that overlap in product 2 one was
\* aborted by the row lock of the other, which committed.
C32_Witness ==
  /\ AllDone /\ faults = 0 /\ AllServable
  /\ \E c \in CallIds, d \in CallIds :
       /\ AbortedByContention(c) /\ calls[c].error.ids = {2}
       /\ Created(d) /\ Len(calls[d].dto.items) = 2


\* The call was aborted with NotFound, Conflict or contention.
Aborted(c) ==
  /\ Done(c) /\ Failed(c)
  /\ calls[c].error.code \in {"user", "products", "stock", "lock_not_available"}

\* Every other call that carried the key of call d was aborted.
RetryOfAborted(d) ==
  /\ \E c \in CallIds \ {d} : KeyOf(c) = KeyOf(d)
  /\ \A c \in CallIds \ {d} : KeyOf(c) = KeyOf(d) => Aborted(c)

C34_HitComparesOnlyKey ==
  [][\A c \in CallIds :
       /\ (calls[c].pc = "check" /\ ExistingFor(c) # {} /\ Moves(c)
           /\ calls'[c].error.code # "storage_fault") =>
            /\ calls'[c].pc = "hit_commit"
            /\ calls'[c].existingOrder = ExistingFor(c)
            /\ stock' = stock /\ orders' = orders
       /\ (calls[c].pc = "hit_commit" /\ Moves(c) /\ calls'[c].error.code # "storage_fault") =>
            /\ calls'[c].pc = "done" /\ calls'[c].outcome = "returned"
            /\ calls'[c].returned = calls[c].existingOrder
            /\ calls'[c].returned \subseteq orders'
            /\ calls'[c].locks = {} /\ calls'[c].txStock = EmptyMap /\ calls'[c].txOrder = {}
            /\ stock' = stock /\ orders' = orders]_vars

\* C34 witness: a request of a user that does not exist got the order that
\* another user's request had created under its key.
C34_Witness ==
  \E c \in CallIds :
    /\ Succeeded(c) /\ ~Created(c)
    /\ calls[c].dto.userId \notin Users
    /\ \E o \in calls[c].returned :
         /\ o.idempotencyKey = KeyOf(c) /\ o.userId # calls[c].dto.userId
         /\ o \in orders


\* Every product row is locked by at most one call, and the rows a call has
\* read into its product map or written are rows it holds the lock of.
LockedExclusively ==
  /\ \A p \in Products : Cardinality(LockHolders(p)) <= 1
  /\ \A c \in CallIds :
       /\ calls[c].locks # {} => calls[c].pc \notin {"begin", "done"}
       /\ DOMAIN calls[c].products \subseteq calls[c].locks
       /\ DOMAIN calls[c].txStock \subseteq calls[c].locks

\* C35: in every state each product row is write-locked by at most one call
\* in flight; a call reads the stock of a row and writes it only under the
\* lock of the row, and the committed stock of a row changes only in the
\* step of a call that holds its lock, to the value that call wrote.
C35_StockOnlyUnderLock ==
  [][/\ LockedExclusively'
     /\ \A p \in Products :
          stock'[p] # stock[p] =>
            \E c \in CallIds :
              /\ p \in calls[c].locks /\ LockHolders(p) = {c}
              /\ calls[c].pc = "commit" /\ calls'[c].pc = "done"
              /\ stock'[p] = calls[c].txStock[p]]_vars

\* C35 witness: two calls in flight, one holding the lock of product 1 with
\* its stock written and not committed, the other holding product 2.
C35_Witness ==
  \E c \in CallIds, d \in CallIds :
    /\ calls[c].locks = {1} /\ 1 \in DOMAIN calls[c].txStock
    /\ calls[d].locks = {2} /\ 2 \in DOMAIN calls[d].products


\* C36: a call that is over holds no row lock and has no write left open,
\* however it ended, and a call that is refused a row is refused by a call
\* that is still in flight, never by one that is over.
C36_NoLockAfterCompletion ==
  [][/\ \A c \in DOMAIN calls' :
          calls'[c].pc = "done" =>
            /\ calls'[c].locks = {}
            /\ calls'[c].txStock = EmptyMap /\ calls'[c].txOrder = {}
     /\ \A d \in CallIds :
          (calls[d].pc = "lock" /\ calls'[d].error.code = "lock_not_available") =>
            \A p \in calls'[d].error.ids :
              \E e \in CallIds \ {d} :
                p \in calls[e].locks /\ calls[e].pc \notin {"begin", "done"}]_vars

\* C36 witness: a call that had locked product 2 was refused for short stock
\* and is over, and a later call holds the lock of product 2.
C36_Witness ==
  \E c \in CallIds, d \in CallIds :
    /\ c < d
    /\ Done(c) /\ calls[c].error.code = "stock" /\ calls[c].error.ids = {2}
    /\ 2 \in calls[d].locks


\* Calls c and d have different keys, a known user, known products with
\* enough stock and no product in common, and no other call shares a
\* product or a key with them.
Independent(c, d) ==
  /\ c # d
  /\ KeyOf(c) # KeyOf(d)
  /\ ProductsOf(c) \cap ProductsOf(d) = {}
  /\ \A e \in {c, d} :
       /\ calls[e].dto.userId \in Users
       /\ ProductsOf(e) \subseteq Products
       /\ \A p \in ProductsOf(e) : SumQty(calls[e].dto.items, p, 1) <= InitStock[p]
  /\ \A e \in CallIds \ {c, d} :
       /\ ProductsOf(e) \cap (ProductsOf(c) \cup ProductsOf(d)) = {}
       /\ KeyOf(e) \notin {KeyOf(c), KeyOf(d)}

\* C37: of two calls with different keys, known users, enough stock and
\* disjoint products neither is aborted or held up by the other: while such
\* a call is in flight its next step is always possible, and unless a
\* storage fault strikes it, it ends by committing its order.
C37_DisjointCallsBothCommit ==
  \A c \in CallIds, d \in CallIds :
    (Independent(c, d) /\ ~Faulted(c)) =>
      /\ ~Done(c) => calls[c].error = NoError /\ ENABLED Step(c)
      /\ Done(c) => Created(c)

\* C37 witness: two such calls are in flight together, each with its rows
\* locked, its stock written and its order inserted, about to commit.
C37_Witness ==
  \E c \in CallIds, d \in CallIds :
    /\ Independent(c, d)
    /\ calls[c].pc = "commit" /\ calls[d].pc = "commit"
    /\ calls[c].locks # {} /\ calls[d].locks # {}


\* C38: the commit of a call takes the quantities of its lines off the stock
\* of the products they name and adds one order, the one of the call, with
\* a line per line of the request; the stock of every other product, the
\* unit price of every product and every order committed before stay as
\* they were.
C38_CommitChangesOnlyItsOwn ==
  [][\A c \in CallIds :
       (calls[c].pc = "commit" /\ calls'[c].pc = "done" /\ calls'[c].outcome = "returned") =>
         /\ \A p \in Products \ ProductsOf(c) : stock'[p] = stock[p]
         /\ \A p \in ProductsOf(c) :
              stock'[p] = stock[p] - SumQty(calls[c].dto.items, p, 1)
         /\ price' = price
         /\ orders \subseteq orders'
         /\ orders' \ orders = calls'[c].returned
         /\ \E o \in orders' \ orders :
              /\ orders' \ orders = {o}
              /\ o.id = c /\ Len(o.items) = Len(calls[c].dto.items)]_vars

\* C38 witness: a call has committed an order of product 2 after another
\* had committed one of product 1; the earlier order is there and the stock
\* of each product is down by the lines that name it.
C38_Witness ==
  \E c \in CallIds, d \in CallIds :
    /\ c # d /\ Created(c) /\ Created(d)
    /\ ProductsOf(c) = {2} /\ ProductsOf(d) = {1}
    /\ calls[c].returned \cup calls[d].returned = orders
    /\ stock[1] = InitStock[1] - 1
    /\ stock[2] = InitStock[2] - SumQty(calls[c].dto.items, 2, 1)


\* C39: a loader fetches each key at most once in its request.  The key
\* list of a findByIds call holds no key that the loader has fetched or is
\* fetching and no key twice; load() of such a key adds nothing to the
\* batch; and a settled promise keeps its outcome, the row as the first
\* fetch read it or the not-found error, whatever happens to the stored row.
C39_KeyFetchedAtMostOnce ==
  [][\A r \in LoaderIds :
       /\ \A k \in LoadKeys :
            Settled(loaders[r].promise[k]) =>
              loaders'[r].promise[k] = loaders[r].promise[k]
       /\ \A k \in Fetched(r) : k \notin Range(loaders'[r].batch)
       /\ \A ids \in loaders'[r].inflight \ loaders[r].inflight :
            /\ Range(ids) \cap Fetched(r) = {}
            /\ \A i \in 1..Len(ids), j \in 1..Len(ids) : ids[i] = ids[j] => i = j]_vars

\* C39 witness: in a later tick load() is called again with the key of a
\* product whose promise is settled with the row as it was before an order
\* took its last unit; no fetch is under way or about to be made.
C39_Witness ==
  \E r \in LoaderIds :
    /\ loaders[r].promise[1].kind = "product"
    /\ loaders[r].promise[1].stock = InitStock[1] /\ stock[1] # InitStock[1]
    /\ loaders[r].tickLoads = << 1 >>
    /\ loaders[r].batch = << >> /\ loaders[r].inflight = {}


\* C40: the totalCount of every response is at least the number of its
\* nodes, also when orders were committed between the fetch and the count
\* of the call.
C40_TotalCountCoversNodes ==
  Listed => list.totalCount >= Len(list.nodes)

\* C40 witness: two orders were committed between the fetch and the count
\* of a call that returned the one order stored before as its only node and
\* a totalCount of 3.
C40_Witness ==
  /\ Listed /\ list.seen # orders
  /\ Len(list.nodes) = 1 /\ Cardinality(list.seen) = 1
  /\ list.totalCount = 3 /\ list.offset = 0
====
